---- MODULE Spec2Model ----
(***************************************************************************)
(* A model of willunylabs/wand: the lock-free MPSC access-log ring buffer  *)
(* (logger/ringbuffer.go, current revision) and the HTTP router            *)
(* (router/router.go, router/trie.go, router/frozen.go, router/serve.go).  *)
(***************************************************************************)
EXTENDS Integers, Naturals, Sequences, FiniteSets, TLC

(***************************************************************************)
(*                         PART I.  RING BUFFER                            *)
(***************************************************************************)

\* Bounds of the ring-buffer model.
MaxCapacity == 2        \* NewRingBuffer is tried with every capacity 1..MaxCapacity
NumProducers == 2       \* concurrent producer goroutines
MaxCalls == 3           \* TryWrite calls made in one behaviour

\* Slot states (logger/ringbuffer.go const block).
slotEmpty == 0
slotWriting == 1
slotReady == 2

\* Consume's batch limit.
BatchCap == 128

Producers == 1..NumProducers
Events == 1..MaxCalls          \* the k-th TryWrite call carries event k
NoEvent == 0                   \* the zero LogEvent of a fresh slot

VARIABLES
  \* RingBuffer fields
  head, tail, mask, data, state, closed, PanicHandlerSet,
  \* one TryWrite frame per producer, the Consume frame
  prod, cons,
  \* history (not program state): what the calls did, in order
  calls, nStarted, results, startedClosed, reserved, batches, panics, handled,
  lateCall, consumed,
  \* history: the calls during which head - tail = Cap held at some instant
  sawFull

rbVars == <<head, tail, mask, data, state, closed, PanicHandlerSet, prod, cons,
            calls, nStarted, results, startedClosed, reserved, batches, panics,
            handled, lateCall, consumed, sawFull>>

\* capacity&(capacity-1) == 0 for a positive capacity: a power of two.
RECURSIVE IsPowerOfTwo(_)
IsPowerOfTwo(n) ==
  IF n = 1 THEN TRUE
  ELSE IF n < 1 \/ n % 2 = 1 THEN FALSE
  ELSE IsPowerOfTwo(n \div 2)

\* NewRingBuffer: the capacities it accepts.
NewRingBufferOK(capacity) == capacity # 0 /\ IsPowerOfTwo(capacity)

Cap == mask + 1

\* x & rb.mask, for mask = 2^k - 1.
AndMask(x) == x % (mask + 1)

\* head-tail >= rb.Cap() in uint64 arithmetic. TryWrite loads head before tail,
\* so the tail it holds can be ahead of the head it holds; the difference then
\* wraps to 2^64-(t-h), which is >= any capacity NewRingBuffer accepts.
BufferFullMutant(h, t) == IF h >= t THEN h - t > Cap ELSE TRUE
BufferFull(h, t) == IF h >= t THEN h - t >= Cap ELSE TRUE

\* slotIdx := head & rb.mask, the slot a successful CAS on head reserves.
SlotIndexMutant(h) == AndMask(h + 1)
SlotIndex(h) == AndMask(h)

\* Consume's exit test, reached only when closed was read non-zero:
\* atomic.LoadUint64(&rb.tail) == atomic.LoadUint64(&rb.head).
DrainedMutant(t, h) == TRUE
Drained(t, h) == t = h

\* batchLimit := rb.Cap(); if batchLimit > 128 { batchLimit = 128 }
BatchLimit == IF Cap > BatchCap THEN BatchCap ELSE Cap

\* The ranges data[lo:hi] that Consume hands to consumeBatch for a batch of
\* `available` slots starting at slot nextSlot, in call order.
BatchRangesMutant(nextSlot, available) ==
  LET endSlot == AndMask(nextSlot + available) IN
  IF endSlot > nextSlot THEN << [lo |-> nextSlot, hi |-> endSlot] >>
  ELSE << [lo |-> nextSlot, hi |-> Cap] >>
\* Consume without its `endSlot > 0` and `nextSlot > 0` tests.
BatchRangesUnguarded(nextSlot, available) ==
  LET endSlot == AndMask(nextSlot + available) IN
  IF endSlot > nextSlot THEN << [lo |-> nextSlot, hi |-> endSlot] >>
  ELSE << [lo |-> nextSlot, hi |-> Cap], [lo |-> 0, hi |-> endSlot] >>
\* The same for a buffer of the given capacity: nextSlot := slotIdx,
\* endSlot := (curr + available) & rb.mask, and the three branches of Consume.
BatchRangesFor(capacity, nextSlot, available) ==
  LET endSlot == (nextSlot + available) % capacity IN
  IF endSlot > nextSlot THEN
    << [lo |-> nextSlot, hi |-> endSlot] >>
  ELSE IF endSlot < nextSlot THEN
    << [lo |-> nextSlot, hi |-> capacity] >>
      \o (IF endSlot > 0 THEN << [lo |-> 0, hi |-> endSlot] >> ELSE << >>)
  ELSE
    << [lo |-> nextSlot, hi |-> capacity] >>
      \o (IF nextSlot > 0 THEN << [lo |-> 0, hi |-> nextSlot] >> ELSE << >>)

BatchRanges(nextSlot, available) == BatchRangesFor(Cap, nextSlot, available)

\* consumeBatch's deferred recover, run when handler(batch) panicked:
\* "handled" when the value goes to PanicHandler, "rethrown" otherwise.
\* (RecoverOutcomeLegacy is the older revision's consumeBatch, `_ = recover()`.)
RecoverOutcomeLegacy(panicHandlerSet) == "swallowed"
RecoverOutcome(panicHandlerSet) ==
  IF panicHandlerSet THEN "handled" ELSE "rethrown"

\* rb.data[lo:hi] as the handler reads it.
SliceOf(lo, hi) == [k \in 1..(hi - lo) |-> data[lo + k - 1]]

IdleProd == [pc |-> "idle", event |-> NoEvent, h |-> 0, t |-> 0, slotIdx |-> 0]
IdleCons == [pc |-> "idle", curr |-> 0, slotIdx |-> 0, available |-> 0, i |-> 0,
             ranges |-> << >>]

RBInit ==
  /\ \E capacity \in 1..MaxCapacity :
        /\ NewRingBufferOK(capacity)
        /\ mask = capacity - 1
        /\ data = [k \in 0..(capacity - 1) |-> NoEvent]
        /\ state = [k \in 0..(capacity - 1) |-> slotEmpty]
  /\ head = 0
  /\ tail = 0
  /\ closed = 0
  /\ PanicHandlerSet \in BOOLEAN
  /\ prod = [p \in Producers |-> IdleProd]
  /\ cons = IdleCons
  /\ calls = 0
  /\ nStarted = 0
  /\ results = << >>
  /\ startedClosed = << >>
  /\ reserved = << >>
  /\ batches = << >>
  /\ panics = 0
  /\ handled = 0
  /\ lateCall = FALSE
  /\ consumed = FALSE
  /\ sawFull = {}

rbShared == <<head, tail, mask, data, state, closed, PanicHandlerSet>>
rbHist == <<calls, nStarted, results, startedClosed, reserved, batches, panics,
            handled, lateCall, consumed, sawFull>>

\* Close: atomic.StoreUint32(&rb.closed, 1).
Close ==
  /\ closed' = 1
  /\ lateCall' = (lateCall \/ \E p \in Producers : prod[p].pc # "idle")
  /\ UNCHANGED <<head, tail, mask, data, state, PanicHandlerSet, prod, cons,
                 calls, nStarted, results, startedClosed, reserved, batches,
                 panics, handled, consumed, sawFull>>

\* TryWrite returns ok to its caller.
Return(p, e, ok) ==
  /\ prod' = [prod EXCEPT ![p] = IdleProd]
  /\ results' = [k \in (1..calls) \cup {e} |->
                   IF k = e THEN (IF ok THEN "true" ELSE "false") ELSE results[k]]

\* A producer goroutine calls TryWrite(event); its first access to the buffer is
\*   if atomic.LoadUint32(&rb.closed) != 0 { return false }
\* Producers are interchangeable: producer p makes its first call only after
\* producers 1..p-1 have made theirs.
TryWriteCall(p) ==
  /\ prod[p].pc = "idle"
  /\ calls < MaxCalls
  /\ p <= nStarted + 1
  /\ nStarted' = IF p > nStarted THEN p ELSE nStarted
  /\ calls' = calls + 1
  /\ startedClosed' = Append(startedClosed, closed # 0)
  /\ lateCall' = (lateCall \/ closed # 0)
  /\ IF closed # 0
       THEN Return(p, calls + 1, FALSE)
       ELSE /\ prod' = [prod EXCEPT ![p] = [IdleProd EXCEPT !.pc = "head",
                                                           !.event = calls + 1]]
            /\ results' = Append(results, "running")
  /\ sawFull' = IF closed = 0 /\ head - tail = Cap THEN sawFull \cup {calls + 1} ELSE sawFull
  /\ UNCHANGED <<rbShared, cons, reserved, batches, panics, handled, consumed>>

\* head := atomic.LoadUint64(&rb.head)
TryWriteLoadHead(p) ==
  /\ prod[p].pc = "head"
  /\ prod' = [prod EXCEPT ![p].pc = "tail", ![p].h = head]
  /\ UNCHANGED <<rbShared, cons, rbHist>>

\* tail := atomic.LoadUint64(&rb.tail); if head-tail >= rb.Cap() { return false }
TryWriteLoadTail(p) ==
  /\ prod[p].pc = "tail"
  /\ IF BufferFull(prod[p].h, tail)
       THEN Return(p, prod[p].event, FALSE)
       ELSE /\ prod' = [prod EXCEPT ![p].pc = "cas", ![p].t = tail]
            /\ UNCHANGED results
  /\ UNCHANGED <<rbShared, cons, calls, nStarted, startedClosed, reserved,
                 batches, panics, handled, lateCall, consumed, sawFull>>

\* The producers inside a TryWrite call.
InCall == {q \in Producers : prod[q].pc # "idle"}

\* if atomic.CompareAndSwapUint64(&rb.head, head, head+1) { slotIdx := head & mask }
\* else backoffCAS(&retries) and retry from the loads.
TryWriteCAS(p) ==
  /\ prod[p].pc = "cas"
  /\ IF head = prod[p].h
       THEN /\ head' = head + 1
            /\ prod' = [prod EXCEPT ![p].pc = "wait", ![p].slotIdx = SlotIndex(prod[p].h)]
            /\ reserved' = Append(reserved, prod[p].event)
            /\ sawFull' = IF head + 1 - tail = Cap
                             THEN sawFull \cup {prod[q].event : q \in InCall}
                             ELSE sawFull
       ELSE /\ prod' = [prod EXCEPT ![p].pc = "head"]
            /\ UNCHANGED <<head, reserved, sawFull>>
  /\ UNCHANGED <<tail, mask, data, state, closed, PanicHandlerSet, cons, calls,
                 nStarted, results, startedClosed, batches, panics, handled,
                 lateCall, consumed>>

\* for atomic.LoadUint32(&rb.state[slotIdx]) != slotEmpty { backoffSlot(...) }
TryWriteWaitSlot(p) ==
  /\ prod[p].pc = "wait"
  /\ prod' = [prod EXCEPT ![p].pc =
                IF state[prod[p].slotIdx] # slotEmpty THEN "wait" ELSE "mark"]
  /\ UNCHANGED <<rbShared, cons, rbHist>>

\* atomic.StoreUint32(&rb.state[slotIdx], slotWriting)
TryWriteMark(p) ==
  /\ prod[p].pc = "mark"
  /\ state' = [state EXCEPT ![prod[p].slotIdx] = slotWriting]
  /\ prod' = [prod EXCEPT ![p].pc = "data"]
  /\ UNCHANGED <<head, tail, mask, data, closed, PanicHandlerSet, cons, rbHist>>

\* rb.data[slotIdx] = event
TryWriteData(p) ==
  /\ prod[p].pc = "data"
  /\ data' = [data EXCEPT ![prod[p].slotIdx] = prod[p].event]
  /\ prod' = [prod EXCEPT ![p].pc = "commit"]
  /\ UNCHANGED <<head, tail, mask, state, closed, PanicHandlerSet, cons, rbHist>>

\* atomic.StoreUint32(&rb.state[slotIdx], slotReady); return true
TryWriteCommit(p) ==
  /\ prod[p].pc = "commit"
  /\ state' = [state EXCEPT ![prod[p].slotIdx] = slotReady]
  /\ Return(p, prod[p].event, TRUE)
  /\ UNCHANGED <<head, tail, mask, data, closed, PanicHandlerSet, cons, calls,
                 nStarted, startedClosed, reserved, batches, panics, handled,
                 lateCall, consumed, sawFull>>

\* The steps of a TryWrite call after its first.
TryWriteStep(p) ==
  \/ TryWriteLoadHead(p)
  \/ TryWriteLoadTail(p)
  \/ TryWriteCAS(p)
  \/ TryWriteWaitSlot(p)
  \/ TryWriteMark(p)
  \/ TryWriteData(p)
  \/ TryWriteCommit(p)

TryWrite(p) == TryWriteCall(p) \/ TryWriteStep(p)

\* go rb.Consume(handler): curr := atomic.LoadUint64(&rb.tail)
ConsumeCall ==
  /\ cons.pc = "idle"
  /\ cons' = [cons EXCEPT !.pc = "loop", !.curr = tail]
  /\ UNCHANGED <<rbShared, prod, rbHist>>

\* Top of the loop: if closed != 0 and tail == head, return.
ConsumeCheckClosed ==
  /\ cons.pc = "loop"
  /\ cons' = [cons EXCEPT !.pc =
                IF closed # 0 /\ Drained(tail, head) THEN "returned" ELSE "slot"]
  /\ UNCHANGED <<rbShared, prod, rbHist>>

\* slotIdx := curr & rb.mask; is state[slotIdx] READY? If it is not, the code
\* loads it once more to choose between Gosched (WRITING) and the idle backoff
\* (EMPTY); both go back to the top of the loop.
ConsumeLoadSlot ==
  /\ cons.pc = "slot"
  /\ LET s == AndMask(cons.curr) IN
     cons' = [cons EXCEPT !.slotIdx = s, !.available = 0, !.i = 0,
                !.pc = IF state[s] = slotReady THEN "peek" ELSE "loop"]
  /\ UNCHANGED <<rbShared, prod, rbHist>>

\* The peek-ahead loop, one state load per step; on leaving it with
\* available > 0 the ranges of the batch are computed (nextSlot, endSlot).
ConsumePeek ==
  /\ cons.pc = "peek"
  /\ IF cons.i < BatchLimit /\ state[AndMask(cons.curr + cons.i)] = slotReady
       THEN cons' = [cons EXCEPT !.available = cons.available + 1, !.i = cons.i + 1]
       ELSE cons' = [cons EXCEPT
                       !.i = 0,
                       !.pc = IF cons.available > 0 THEN "call" ELSE "loop",
                       !.ranges = IF cons.available > 0
                                    THEN BatchRanges(cons.slotIdx, cons.available)
                                    ELSE << >>]
  /\ UNCHANGED <<rbShared, prod, rbHist>>

\* consumeBatch(handler, rb.PanicHandler, rb.data[lo:hi]): handler(batch) begins.
ConsumeBatchCall ==
  /\ cons.pc = "call"
  /\ cons' = [cons EXCEPT !.pc = "handler"]
  /\ batches' = Append(batches,
       [lo |-> Head(cons.ranges).lo, hi |-> Head(cons.ranges).hi,
        events |-> SliceOf(Head(cons.ranges).lo, Head(cons.ranges).hi)])
  /\ UNCHANGED <<rbShared, prod, calls, nStarted, results, startedClosed,
                 reserved, panics, handled, lateCall, consumed, sawFull>>

\* A consumer that commits after the first consumeBatch call of a batch.
AfterBatchEarly == "commit"

\* Where Consume goes when a consumeBatch call is over: the next range of the
\* batch, or the commit loop.
AfterBatch == IF Tail(cons.ranges) = << >> THEN "commit" ELSE "call"

\* handler(batch) returns.
HandlerReturn ==
  /\ cons.pc = "handler"
  /\ cons' = [cons EXCEPT !.pc = AfterBatch, !.ranges = Tail(cons.ranges)]
  /\ UNCHANGED <<rbShared, prod, rbHist>>

\* handler(batch) panics: consumeBatch's deferred function recovers, then
\* calls panicHandler(rec) or panics again.
HandlerPanic ==
  /\ cons.pc = "handler"
  /\ panics' = panics + 1
  /\ LET out == RecoverOutcome(PanicHandlerSet) IN
     /\ cons' = IF out = "rethrown"
                  THEN [cons EXCEPT !.pc = "panicked"]
                  ELSE [cons EXCEPT !.pc = AfterBatch, !.ranges = Tail(cons.ranges)]
     /\ handled' = IF out = "handled" THEN handled + 1 ELSE handled
  /\ UNCHANGED <<rbShared, prod, calls, nStarted, results, startedClosed,
                 reserved, batches, lateCall, consumed, sawFull>>

\* Commit consumption: state[(curr+i) & mask] = slotEmpty, one store per step.
ConsumeCommit ==
  /\ cons.pc = "commit"
  /\ cons.i < cons.available
  /\ state' = [state EXCEPT ![AndMask(cons.curr + cons.i)] = slotEmpty]
  /\ cons' = [cons EXCEPT !.i = cons.i + 1]
  /\ UNCHANGED <<head, tail, mask, data, closed, PanicHandlerSet, prod, rbHist>>

\* curr += available; atomic.StoreUint64(&rb.tail, curr)
ConsumePublish ==
  /\ cons.pc = "commit"
  /\ cons.i >= cons.available
  /\ tail' = cons.curr + cons.available
  /\ cons' = [cons EXCEPT !.pc = "loop", !.curr = cons.curr + cons.available]
  /\ consumed' = TRUE
  /\ UNCHANGED <<head, mask, data, state, closed, PanicHandlerSet, prod, calls,
                 nStarted, results, startedClosed, reserved, batches, panics,
                 handled, lateCall, sawFull>>

Consume ==
  \/ ConsumeCall
  \/ ConsumeCheckClosed
  \/ ConsumeLoadSlot
  \/ ConsumePeek
  \/ ConsumeBatchCall
  \/ HandlerReturn
  \/ HandlerPanic
  \/ ConsumeCommit
  \/ ConsumePublish

(***************************************************************************)
(*                           PART II.  ROUTER                              *)
(*                                                                         *)
(* Paths, patterns and hosts are sequences of one-character strings, so    *)
(* that splitting, cleaning, lower-casing and slash toggling are computed  *)
(* on characters as the Go code computes them on bytes.  Methods are       *)
(* atomic strings.                                                         *)
(***************************************************************************)

\* Limits of the router (DoS protection).
MaxDepth == 50
MaxPathLength == 4096

\* Bound of the router model: routes registered in one behaviour.
MaxRoutes == 2

\* c + ('a' - 'A') for the upper-case letters that occur in the model.
ToLower(c) ==
  CASE c = "A" -> "a"
    [] c = "B" -> "b"
    [] c = "C" -> "c"
    [] c = "F" -> "f"
    [] c = "H" -> "h"
    [] c = "I" -> "i"
    [] c = "W" -> "w"
    [] OTHER -> c

\* lowerASCII: every 'A'..'Z' byte lowered, everything else kept.
lowerASCII(s) == [k \in 1..Len(s) |-> ToLower(s[k])]

\* Bytes that getPartsWithRaw and sanitizePart reject.
BadBytes == {"\n", "\r", "NUL"}

\* s[from:to] with Go's 0-based, end-exclusive bounds.
Slice(s, from, to) == SubSeq(s, from + 1, to)

\* The first index from i on (0-based) at which path has a '/', Len(path)
\* when it has none.
NextSlash(path, i) ==
  LET at == {j \in i..(Len(path) - 1) : path[j + 1] = "/"}
  IN  IF at = {} THEN Len(path) ELSE CHOOSE j \in at : \A k \in at : j <= k

\* The elements of the set S of integers that lie in lo..hi, in increasing
\* order.  The interval is halved until it holds one element of S.
RECURSIVE Ascending(_, _, _)
Ascending(S, lo, hi) ==
  LET T == {x \in S : lo <= x /\ x <= hi}
  IN  IF T = {} THEN << >>
      ELSE IF Cardinality(T) = 1 THEN <<CHOOSE x \in T : TRUE>>
      ELSE Ascending(T, lo, (lo + hi) \div 2)
             \o Ascending(T, ((lo + hi) \div 2) + 1, hi)

\* The values `start` has in the loop of getPartsWithRaw when a part is
\* appended (0-based): the bytes other than '/' that open the path or follow
\* a '/'.
PartStarts(path) ==
  {k \in 0..(Len(path) - 1) : path[k + 1] # "/" /\ (k = 0 \/ path[k] = "/")}

\* The loop of getPartsWithRaw and the two appends after it, by what they
\* leave: one part for every start, path[start:i] up to the next '/' or the
\* end of the path, its start in indices, and the sentinel len(path) as the
\* last index.
SplitLoop(path) ==
  LET starts == Ascending(PartStarts(path), 0, Len(path))
  IN  [ok |-> TRUE,
       parts |-> [k \in 1..Len(starts) |->
                    Slice(path, starts[k], NextSlash(path, starts[k]))],
       indices |-> starts \o <<Len(path)>>]

\* getPartsWithRaw without its safety check.
getPartsWithRawUnchecked(path, raw) ==
  LET r == SplitLoop(path)
  IN  [ok |-> TRUE, path |-> raw, match |-> path,
       parts |-> r.parts, indices |-> r.indices]

\* getPartsWithRaw: the segment record of a match path and its raw path;
\* a NUL, CR or LF byte anywhere makes it fail.
getPartsWithRaw(path, raw) ==
  LET r == SplitLoop(path)
  IN  IF \E k \in 1..Len(path) : path[k] \in BadBytes
        THEN [ok |-> FALSE, path |-> raw, match |-> path,
              parts |-> << >>, indices |-> << >>]
        ELSE [ok |-> TRUE, path |-> raw, match |-> path,
              parts |-> r.parts, indices |-> r.indices]

getParts(path) == getPartsWithRaw(path, path)

\* strings.Join(parts, "/"), the sequence joined by halves.
RECURSIVE JoinSlash(_)
JoinSlash(parts) ==
  IF parts = << >> THEN << >>
  ELSE IF Len(parts) = 1 THEN parts[1]
  ELSE JoinSlash(SubSeq(parts, 1, Len(parts) \div 2))
         \o <<"/">>
         \o JoinSlash(SubSeq(parts, (Len(parts) \div 2) + 1, Len(parts)))

\* path.Clean on a rooted path, one segment: "." is dropped, ".." removes
\* the segment before it (nothing at the root), any other segment is kept.
CleanSegment(seg, done) ==
  IF seg = <<".">> THEN done
  ELSE IF seg = <<".", ".">>
         THEN IF done = << >> THEN done ELSE SubSeq(done, 1, Len(done) - 1)
  ELSE Append(done, seg)

\* path.Clean on a rooted path, segment by segment from the first to the
\* last: the first half of the segments, then the second half on what the
\* first half left (nothing, when it is back at the root).
RECURSIVE CleanSegments(_, _)
CleanSegments(todo, done) ==
  IF todo = << >> THEN done
  ELSE IF Len(todo) = 1 THEN CleanSegment(todo[1], done)
  ELSE LET first == CleanSegments(SubSeq(todo, 1, Len(todo) \div 2), done)
       IN  IF first = << >>
             THEN CleanSegments(SubSeq(todo, (Len(todo) \div 2) + 1, Len(todo)), << >>)
             ELSE CleanSegments(SubSeq(todo, (Len(todo) \div 2) + 1, Len(todo)), first)

PathClean(p) ==
  <<"/">> \o JoinSlash(CleanSegments(SplitLoop(p).parts, << >>))

\* cleanPath: rooted, cleaned, and the trailing slash of the input kept.
cleanPath(p) ==
  IF p = << >> THEN <<"/">>
  ELSE LET q == IF p[1] # "/" THEN <<"/">> \o p ELSE p
           cp == PathClean(q)
       IN  IF Len(cp) > 1 /\ q[Len(q)] = "/" /\ cp[Len(cp)] # "/"
             THEN cp \o <<"/">>
             ELSE cp

\* alternatePath: the path with its trailing slash toggled.
alternatePath(p) ==
  IF p = << >> \/ p = <<"/">> THEN [ok |-> FALSE, path |-> << >>]
  ELSE IF p[Len(p)] = "/" THEN [ok |-> TRUE, path |-> SubSeq(p, 1, Len(p) - 1)]
  ELSE [ok |-> TRUE, path |-> p \o <<"/">>]

\* The index of the last ':' of a host, 0 when there is none.
RECURSIVE LastColon(_, _)
LastColon(host, k) ==
  IF k = 0 THEN 0
  ELSE IF host[k] = ":" THEN k
  ELSE LastColon(host, k - 1)

\* normalizeHost for hosts of the form name or name:port: the port is split off
\* (net.SplitHostPort) and the name lower-cased.
normalizeHost(host) ==
  IF host = << >> THEN << >>
  ELSE LET c == LastColon(host, Len(host))
       IN  IF c > 1 /\ c < Len(host)
             THEN lowerASCII(SubSeq(host, 1, c - 1))
             ELSE lowerASCII(host)

\* isValidMethod: not empty, no space or control byte.
InvalidMethods == {"", "GE T"}
isValidMethod(method) == method \notin InvalidMethods

\* part[0] == ':' || part[0] == '*'
IsParamPart(part) == Len(part) > 0 /\ part[1] \in {":", "*"}


(***************************************************************************)
(* net/url as prepareRouteContext uses it (Go standard library, after its  *)
(* documentation): percent-encoding of paths.                              *)
(***************************************************************************)

HexDigits == {"0", "1", "2", "3", "4", "5", "6", "7", "8", "9",
              "A", "B", "C", "D", "E", "F", "a", "b", "c", "d", "e", "f"}

\* The byte a percent triplet stands for, for the triplets of the model.
PercentDecode(h1, h2) ==
  CASE h1 = "2" /\ h2 \in {"F", "f"} -> "/"
    [] h1 = "2" /\ h2 = "5" -> "%"
    [] h1 = "2" /\ h2 = "0" -> " "
    [] h1 = "6" /\ h2 = "1" -> "a"
    [] OTHER -> "?"

\* url.unescape(s, encodePath): [ok, path]; a '%' not followed by two
\* hexadecimal digits is an error.
RECURSIVE unescape(_)
unescape(s) ==
  IF s = << >> THEN [ok |-> TRUE, path |-> << >>]
  ELSE IF Head(s) = "%"
    THEN IF Len(s) < 3 \/ s[2] \notin HexDigits \/ s[3] \notin HexDigits
           THEN [ok |-> FALSE, path |-> << >>]
           ELSE LET rest == unescape(SubSeq(s, 4, Len(s)))
                IN  [ok |-> rest.ok,
                     path |-> <<PercentDecode(s[2], s[3])>> \o rest.path]
    ELSE LET rest == unescape(Tail(s))
         IN  [ok |-> rest.ok, path |-> <<Head(s)>> \o rest.path]

\* url.shouldEscape(c, encodePath) for the bytes of the model.
shouldEscape(c) == c \in {" ", "?", "%"} \cup BadBytes

\* url.escape(s, encodePath)
RECURSIVE escape(_)
escape(s) ==
  IF s = << >> THEN << >>
  ELSE (CASE Head(s) = " " -> <<"%", "2", "0">>
          [] Head(s) = "%" -> <<"%", "2", "5">>
          [] Head(s) = "?" -> <<"%", "3", "F">>
          [] Head(s) \in BadBytes -> <<"%", "0", "A">>
          [] OTHER -> <<Head(s)>>) \o escape(Tail(s))

\* url.validEncoded(s, encodePath): '%' passes, a byte that must be escaped
\* does not.
validEncoded(s) == \A k \in 1..Len(s) : s[k] = "%" \/ ~shouldEscape(s[k])

\* (*url.URL).EscapedPath: RawPath when it is a valid encoding of Path,
\* otherwise the escaped form of Path computed afresh.
EscapedPathAlwaysRaw(path, rawPath) == rawPath

EscapedPath(path, rawPath) ==
  IF rawPath # << >> /\ validEncoded(rawPath)
       /\ unescape(rawPath).ok /\ unescape(rawPath).path = path
    THEN rawPath
    ELSE escape(path)
(***************************************************************************)
(* router/trie.go: the segment trie.  A *node is a record; a nil pointer   *)
(* is NilNode; staticChildren is the map from part to child (the small     *)
(* slice and the map of the Go type hold the same association).  insert    *)
(* mutates nodes in place, so it returns the node as it is left behind,    *)
(* also when it returns an error.                                          *)
(***************************************************************************)

NilNode == [nil |-> TRUE]

\* A nil HandleFunc.
NoHandler == [nilFunc |-> TRUE]

\* &node{part: part}
NewNode(part) ==
  [pattern |-> << >>, part |-> part, staticChildren |-> << >>,
   paramChild |-> NilNode, wildChild |-> NilNode,
   handler |-> NoHandler, hasParams |-> FALSE]

\* staticChildren.get
staticGetNever(children, part) == NilNode
staticGet(children, part) ==
  IF part \in DOMAIN children THEN children[part] ELSE NilNode

\* staticChildren.set
staticSet(children, part, child) ==
  [q \in (DOMAIN children) \cup {part} |->
     IF q = part THEN child ELSE children[q]]

\* sanitizePart: "" when the part is accepted
sanitizePart(part) ==
  IF part = << >> THEN "invalid part in route: empty"
  ELSE IF \E k \in 1..Len(part) : part[k] \in BadBytes \cup {"/"}
         THEN "invalid part in route"
         ELSE ""

\* node.matchChildForInsert
matchChildForInsert(n, part) ==
  IF part = << >> THEN NilNode
  ELSE IF part[1] = ":" THEN n.paramChild
  ELSE IF part[1] = "*" THEN n.wildChild
  ELSE staticGet(n.staticChildren, part)

\* The checks node.insert makes on the part at `height` before it looks for a
\* child: "" when they pass.
PartError(parts, height) ==
  LET part == parts[height + 1]
  IN  IF Len(part) > 0 /\ part[1] = "*" /\ Len(parts) > height + 1
        THEN "wildcard * must be at the end of path"
      ELSE IF Len(part) > 0 /\ part[1] = "*" /\ Len(part) = 1
        THEN "wildcard must have a name"
      ELSE IF Len(part) > 0 /\ part[1] = ":" /\ Len(part) = 1
        THEN "parameter must have a name"
      ELSE sanitizePart(part)

\* node.insert at the leaf, without the check of n.pattern.
insertLeafOverwrite(n, pattern, handler, routeHasParams) ==
  IF handler = NoHandler THEN [err |-> "nil handler", node |-> n]
  ELSE [err |-> "",
        node |-> [n EXCEPT !.pattern = pattern, !.handler = handler,
                           !.hasParams = routeHasParams]]

\* node.insert, base case: at the leaf.
insertLeaf(n, pattern, handler, routeHasParams) ==
  IF n.pattern # << >> THEN [err |-> "duplicate route", node |-> n]
  ELSE IF handler = NoHandler THEN [err |-> "nil handler", node |-> n]
  ELSE [err |-> "",
        node |-> [n EXCEPT !.pattern = pattern, !.handler = handler,
                           !.hasParams = routeHasParams]]

\* node.insert without its conflict checks.
ChildErrorNever(n, part) == ""

\* node.insert between the checks of the part and the recursive call: the
\* conflict checks on the child that is reused or created; "" when they pass.
ChildError(n, part) ==
  LET child == matchChildForInsert(n, part)
  IN  IF child # NilNode
        THEN IF part[1] \in {":", "*"} /\ child.part # part THEN "conflict" ELSE ""
      ELSE IF part[1] = ":" /\ n.wildChild # NilNode THEN "conflict"
      ELSE IF part[1] = "*" /\ n.paramChild # NilNode THEN "conflict"
      ELSE ""

\* The child node.insert descends into: the one reused, or a new one.
ChildForInsert(n, part) ==
  IF matchChildForInsert(n, part) # NilNode
    THEN matchChildForInsert(n, part) ELSE NewNode(part)

\* n with the child for `part` set to the node the recursive call returned.
AttachChild(n, part, r) ==
  [err |-> r.err,
   node |-> IF part[1] = ":" THEN [n EXCEPT !.paramChild = r.node]
            ELSE IF part[1] = "*" THEN [n EXCEPT !.wildChild = r.node]
            ELSE [n EXCEPT !.staticChildren =
                     staticSet(n.staticChildren, part, r.node)]]

\* The error node.insert returns at this node without reaching the leaf and
\* without descending, "" otherwise: the depth check, then (below the leaf)
\* the checks of the part and the conflict checks on the child.
StopError(n, parts, height) ==
  IF height > MaxDepth THEN "route too deep"
  ELSE IF height = Len(parts) THEN ""
  ELSE IF PartError(parts, height) # "" THEN PartError(parts, height)
  ELSE ChildError(n, parts[height + 1])

\* routeHasParams as node.insert has it at height h, having started at
\* `height`: set by every parameter or wildcard part passed on the way.
HasParamsAt(parts, height, h, routeHasParams) ==
  routeHasParams \/ \E k \in (height + 1)..h : IsParamPart(parts[k])

\* The nodes the calls of node.insert at the heights lo + 1 .. hi are made
\* on, node.insert having been called on n at height lo: each is the child,
\* reused or created, of the one before.  The heights are taken by halves.
RECURSIVE InsertPath(_, _, _, _)
InsertPath(n, parts, lo, hi) ==
  IF hi <= lo THEN << >>
  ELSE IF hi = lo + 1 THEN <<ChildForInsert(n, parts[hi])>>
  ELSE LET upper == InsertPath(n, parts, lo, (lo + hi) \div 2)
       IN  upper \o InsertPath(upper[Len(upper)], parts, (lo + hi) \div 2, hi)

\* What the call of node.insert at height lo returns, the call at height hi
\* having returned r: every call hands the error on and leaves the node it
\* got back as the child of its own.  nodes[k + 1] is the node of the call
\* at height k; the heights are taken by halves, the lower half first.
RECURSIVE InsertReturn(_, _, _, _, _)
InsertReturn(nodes, parts, lo, hi, r) ==
  IF hi <= lo THEN r
  ELSE IF hi = lo + 1 THEN AttachChild(nodes[lo + 1], parts[hi], r)
  ELSE LET lower == InsertReturn(nodes, parts, (lo + hi) \div 2, hi, r)
       IN  [err |-> lower.err,
            node |-> InsertReturn(nodes, parts, lo, (lo + hi) \div 2, lower).node]

\* node.insert, called on n at height 0.  The recursion goes down from
\* height to height, to the leaf or to the first height at which it returns
\* an error, and comes back attaching the children.
insert(n, pattern, parts, height, handler, routeHasParams) ==
  LET last == IF Len(parts) > MaxDepth THEN MaxDepth + 1 ELSE Len(parts)
      nodes == <<n>> \o InsertPath(n, parts, 0, last)
      stops == {k \in 0..last : StopError(nodes[k + 1], parts, k) # ""}
      end == IF stops = {} THEN last ELSE CHOOSE k \in stops : \A j \in stops : k <= j
      bottom == IF stops # {}
                  THEN [err |-> StopError(nodes[end + 1], parts, end),
                        node |-> nodes[end + 1]]
                  ELSE insertLeaf(nodes[last + 1], pattern, handler,
                                  HasParamsAt(parts, 0, last, routeHasParams))
  IN  InsertReturn(nodes, parts, 0, end, bottom)

\* A lookup that found nothing; the collector is left as the lookup left it.
Miss(params) == [node |-> NilNode, params |-> params]

IsWildNode(n) == Len(n.part) > 0 /\ n.part[1] = "*"

\* A wildcard capture that stops at the end of the segment.
wildcardValueOneSegment(segs, height) ==
  IF height >= Len(segs.parts) THEN << >>
  ELSE Slice(segs.path, segs.indices[height + 1],
             segs.indices[height + 1] + Len(segs.parts[height + 1]))

\* The wildcard capture of node.search: segs.path[start:], start being
\* segs.indices[height], moved past a '/' that stands there.
wildcardValue(segs, height) ==
  LET start0 == segs.indices[height + 1]
      start == IF start0 < Len(segs.path) /\ segs.path[start0 + 1] = "/"
                 THEN start0 + 1 ELSE start0
  IN  Slice(segs.path, start, Len(segs.path))

\* The collector after a parameter branch that found nothing, with what the
\* branch captured left in it.
BacktrackKept(params, snapshot, collect) == params

\* node.search, backtracking: the collector is cut back to the length it had
\* before the parameter was captured.
Backtrack(params, snapshot, collect) ==
  IF collect THEN SubSeq(params, 1, snapshot) ELSE params

\* node.search.  `collect` is "params != nil"; params is the collector, a
\* sequence of <<key, value>>.
RECURSIVE search(_, _, _, _, _)
search(n, segs, height, params, collect) ==
  IF height > MaxDepth THEN Miss(params)
  ELSE IF height = Len(segs.parts) \/ IsWildNode(n) THEN
    IF n.pattern = << >> THEN
      IF height = Len(segs.parts) /\ n.wildChild # NilNode
        THEN search(n.wildChild, segs, height, params, collect)
        ELSE Miss(params)
    ELSE IF IsWildNode(n) /\ collect THEN
      [node |-> n,
       params |-> Append(params, <<Tail(n.part), wildcardValue(segs, height)>>)]
    ELSE [node |-> n, params |-> params]
  ELSE
    LET part == segs.parts[height + 1]
        sc == IF n.staticChildren # << >>
                THEN staticGet(n.staticChildren, part) ELSE NilNode
        r1 == IF sc # NilNode
                THEN search(sc, segs, height + 1, params, collect)
                ELSE Miss(params)
        snapshot == Len(r1.params)
        start == segs.indices[height + 1]
        end == start + Len(part)
        value == IF start >= 0 /\ end <= Len(segs.path)
                   THEN Slice(segs.path, start, end) ELSE part
        r2 == IF n.paramChild # NilNode
                THEN LET r == search(n.paramChild, segs, height + 1,
                                     IF collect
                                       THEN Append(r1.params,
                                                   <<Tail(n.paramChild.part), value>>)
                                       ELSE r1.params,
                                     collect)
                     IN  IF r.node # NilNode THEN r
                         ELSE Miss(Backtrack(r.params, snapshot, collect))
                ELSE Miss(r1.params)
    IN  IF r1.node # NilNode THEN r1
        ELSE IF r2.node # NilNode THEN r2
        ELSE IF n.wildChild # NilNode
          THEN search(n.wildChild, segs, height, r2.params, collect)
          ELSE Miss(r2.params)

(***************************************************************************)
(* router/router.go: route tables and registration.  Go maps are functions *)
(* whose domain is the set of keys present.                                *)
(***************************************************************************)

MapSet(m, k, v) == [q \in (DOMAIN m) \cup {k} |-> IF q = k THEN v ELSE m[q]]

\* newRouteTable (and the zero routeTable of NewRouter, whose maps are made there)
newRouteTable ==
  [roots |-> << >>, static |-> << >>, staticAllow |-> << >>,
   hasParams |-> << >>, anyParams |-> FALSE, hasTrailing |-> FALSE]

\* methodOrder: the standard methods in the order of the Allow header.
methodOrder == <<"GET", "HEAD", "POST", "PUT", "PATCH", "DELETE", "OPTIONS">>

\* standardMethodBits: the bit of each standard method (1 << iota).
standardMethodBits ==
  [GET |-> 1, HEAD |-> 2, POST |-> 4, PUT |-> 8, PATCH |-> 16, DELETE |-> 32,
   OPTIONS |-> 64]

\* bits&bit != 0 and bits | bit on uint8, for a single bit.
HasBit(bits, bit) == (bits \div bit) % 2 = 1
OrBit(bits, bit) == IF HasBit(bits, bit) THEN bits ELSE (bits + bit) % 256

\* The custom methods of the model in the byte order sort.Strings uses
\* ('L' < 'P').
CustomSorted == <<"LINK", "PURGE">>

\* a < b for two custom methods.
StringLess(a, b) ==
  \E i, j \in 1..Len(CustomSorted) :
    CustomSorted[i] = a /\ CustomSorted[j] = b /\ i < j

\* The elements of seq that are in keep, in the order of seq.
RECURSIVE FilterSeq(_, _)
FilterSeq(seq, keep) ==
  IF seq = << >> THEN << >>
  ELSE IF Head(seq) \in keep THEN <<Head(seq)>> \o FilterSeq(Tail(seq), keep)
  ELSE FilterSeq(Tail(seq), keep)

\* sort.Strings, by insertion.
RECURSIVE InsertSorted(_, _)
InsertSorted(sorted, x) ==
  IF sorted = << >> THEN <<x>>
  ELSE IF StringLess(x, Head(sorted)) THEN <<x>> \o sorted
  ELSE <<Head(sorted)>> \o InsertSorted(Tail(sorted), x)

RECURSIVE SortFrom(_, _)
SortFrom(todo, sorted) ==
  IF todo = << >> THEN sorted
  ELSE SortFrom(Tail(todo), InsertSorted(sorted, Head(todo)))

SortStringsSkipped(custom) == custom
SortStrings(custom) == SortFrom(custom, << >>)

\* appendCustomMethod: appended unless it is in the slice already.
appendCustomMethod(custom, method) ==
  IF \E i \in 1..Len(custom) : custom[i] = method THEN custom
  ELSE Append(custom, method)

\* addAllowedMethod on the pair (bits, custom).
addAllowedMethod(method, acc) ==
  IF method \in DOMAIN standardMethodBits
    THEN [bits |-> OrBit(acc.bits, standardMethodBits[method]), custom |-> acc.custom]
    ELSE [bits |-> acc.bits, custom |-> appendCustomMethod(acc.custom, method)]

\* The header as the list of strings written to the builder.
RECURSIVE JoinComma(_)
JoinComma(methods) ==
  IF Len(methods) <= 1 THEN methods
  ELSE <<Head(methods), ", ">> \o JoinComma(Tail(methods))

\* buildAllowHeader: the standard methods of bits in methodOrder, then the
\* custom ones sorted, separated by ", ".
buildAllowHeader(bits, custom) ==
  IF bits = 0 /\ custom = << >> THEN << >>
  ELSE JoinComma(
         FilterSeq(methodOrder,
                   {m \in DOMAIN standardMethodBits :
                      HasBit(bits, standardMethodBits[m])})
         \o (IF Len(custom) > 1 THEN SortStrings(custom) ELSE custom))

\* The order in which a range over a map of methods visits its keys is not
\* fixed by Go: an order is a sequence of all methods, a range visits the
\* keys of the map in that order.  MapOrder is the order the dispatch of the
\* model uses; MapOrders are the orders considered where the order is at
\* issue.
Methods == {"GET", "HEAD", "POST", "PUT", "PATCH", "DELETE", "OPTIONS", "LINK", "PURGE"}
MapOrder == <<"PURGE", "OPTIONS", "POST", "LINK", "HEAD", "GET", "DELETE", "PATCH", "PUT">>
MapOrders ==
  { MapOrder,
    <<"GET", "HEAD", "POST", "PUT", "PATCH", "DELETE", "OPTIONS", "LINK", "PURGE">>,
    <<"LINK", "PURGE", "GET", "POST", "HEAD", "OPTIONS", "PUT", "DELETE", "PATCH">>,
    <<"POST", "PURGE", "GET", "LINK", "PUT", "HEAD", "PATCH", "OPTIONS", "DELETE">> }

\* addAllowedMethod for each method of `added` in turn.
RECURSIVE AddAll(_, _)
AddAll(added, acc) ==
  IF added = << >> THEN acc
  ELSE AddAll(Tail(added), addAllowedMethod(Head(added), acc))

\* The tail shared by buildStaticAllowHeader and allowedMethodsInTable after
\* their loops called addAllowedMethod for `added`: nothing found, or HEAD
\* added for GET and OPTIONS added.
FinishAllow(added) ==
  LET acc == AddAll(added, [bits |-> 0, custom |-> << >>])
      withHead == IF HasBit(acc.bits, standardMethodBits["GET"])
                    THEN OrBit(acc.bits, standardMethodBits["HEAD"])
                    ELSE acc.bits
  IN  IF acc.bits = 0 /\ acc.custom = << >> THEN [ok |-> FALSE, allow |-> << >>]
      ELSE [ok |-> TRUE,
            allow |-> buildAllowHeader(OrBit(withHead, standardMethodBits["OPTIONS"]),
                                       acc.custom)]

\* buildStaticAllowHeader, the range over `static` taken in order ord.
buildStaticAllowHeaderIn(static, path, ord) ==
  FinishAllow(FilterSeq(ord, {m \in DOMAIN static : path \in DOMAIN static[m]}))

buildStaticAllowHeader(static, path) == buildStaticAllowHeaderIn(static, path, MapOrder)

\* validateParamNames: the error raised at part i, "" when there is none.
ParamNameError(parts, i) ==
  LET part == parts[i]
  IN  IF Len(part) = 0 THEN ""
      ELSE IF part[1] = "*" /\ i # Len(parts)
        THEN "wildcard * must be at the end of path"
      ELSE IF part[1] \in {":", "*"} THEN
        IF Tail(part) = << >> THEN "parameter must have a name"
        ELSE IF \E j \in 1..(i - 1) :
                  IsParamPart(parts[j]) /\ Tail(parts[j]) = Tail(part)
          THEN "conflict: duplicate param name"
        ELSE ""
      ELSE ""

validateParamNamesSkipped(parts) == ""
validateParamNames(parts) ==
  LET bad == {i \in 1..Len(parts) : ParamNameError(parts, i) # ""}
  IN  IF bad = {} THEN ""
      ELSE ParamNameError(parts, CHOOSE i \in bad : \A j \in bad : i <= j)

\* lockIgnoreCase: the first call latches IgnoreCase.
lockIgnoreCase(r) ==
  IF r.ignoreCaseSet THEN r
  ELSE [r EXCEPT !.ignoreCaseEnabled = r.IgnoreCase, !.ignoreCaseSet = TRUE]

\* ignoreCaseActive
ignoreCaseActive(r) ==
  IF r.ignoreCaseSet THEN r.ignoreCaseEnabled ELSE r.IgnoreCase

\* tableForHostLocked: the router with the table of `host` made if missing.
tableForHostLocked(r, host) ==
  IF host = << >> \/ host \in DOMAIN r.hosts THEN r
  ELSE [r EXCEPT !.hosts = MapSet(r.hosts, host, newRouteTable)]

TableOf(r, host) == IF host = << >> THEN r.table ELSE r.hosts[host]

WithTable(r, host, t) ==
  IF host = << >> THEN [r EXCEPT !.table = t]
  ELSE [r EXCEPT !.hosts = MapSet(r.hosts, host, t)]

\* The pattern as it is inserted when IgnoreCase is latched on: literal
\* segments lower-cased, parameter and wildcard parts kept.
LowerPartsAll(parts) == [i \in 1..Len(parts) |-> lowerASCII(parts[i])]
LowerParts(parts) ==
  [i \in 1..Len(parts) |->
     IF IsParamPart(parts[i]) THEN parts[i] ELSE lowerASCII(parts[i])]

LowerPattern(cleaned, parts) ==
  IF parts = << >> THEN <<"/">>
  ELSE <<"/">> \o JoinSlash(LowerParts(parts))
       \o (IF Len(cleaned) > 1 /\ cleaned[Len(cleaned)] = "/" THEN <<"/">> ELSE << >>)

\* What handle does to the table after root.insert returned nil.
Registered(table, method, matchPattern, handler, hasParams) ==
  LET t1 == IF Len(matchPattern) > 1 /\ matchPattern[Len(matchPattern)] = "/"
              THEN [table EXCEPT !.hasTrailing = TRUE] ELSE table
  IN  IF hasParams
        THEN [t1 EXCEPT !.hasParams = MapSet(t1.hasParams, method, TRUE),
                        !.anyParams = TRUE]
        ELSE LET m == IF method \in DOMAIN t1.static THEN t1.static[method] ELSE << >>
                 static == MapSet(t1.static, method, MapSet(m, matchPattern, handler))
                 allow == buildStaticAllowHeader(static, matchPattern)
             IN  [t1 EXCEPT !.static = static,
                            !.staticAllow = IF allow.ok
                                              THEN MapSet(t1.staticAllow, matchPattern,
                                                          allow.allow)
                                              ELSE t1.staticAllow]

\* A nil Middleware; a middleware that returns a nil handler.
NilMiddleware == "nil"
ReturnsNil == "returnsNil"

\* mw(h): the handler a middleware returns around h.
Wrap(mw, h) == IF mw = ReturnsNil THEN NoHandler ELSE [mw |-> mw, next |-> h]

\* The loop of applyMiddlewares, from the last middleware to the first
\* (i is 1-based; 0 ends the loop).
RECURSIVE applyLoop(_, _, _)
applyLoop(h, mws, i) ==
  IF i = 0 THEN [err |-> "", handler |-> h]
  ELSE IF mws[i] = NilMiddleware
    THEN [err |-> "nil middleware", handler |-> NoHandler]
  ELSE IF Wrap(mws[i], h) = NoHandler
    THEN [err |-> "middleware returned nil handler", handler |-> NoHandler]
  ELSE applyLoop(Wrap(mws[i], h), mws, i - 1)

\* applyMiddlewares
applyMiddlewares(handler, mws) == applyLoop(handler, mws, Len(mws))

\* Router.handle: the error ("" for nil) and the router as the call leaves
\* it.
handle(r, host, method, pattern, handler0, groupMws) ==
  LET cleaned == cleanPath(pattern)
      segs == getParts(cleaned)
  IN  IF handler0 = NoHandler THEN [err |-> "nil handler", router |-> r]
      ELSE IF ~isValidMethod(method) THEN [err |-> "unsupported method", router |-> r]
      ELSE IF cleaned # pattern THEN [err |-> "non-canonical pattern", router |-> r]
      ELSE IF Len(cleaned) > MaxPathLength THEN [err |-> "pattern too long", router |-> r]
      ELSE IF ~segs.ok THEN [err |-> "invalid pattern", router |-> r]
      ELSE IF Len(segs.parts) > MaxDepth THEN [err |-> "route too deep", router |-> r]
      ELSE IF validateParamNames(segs.parts) # ""
        THEN [err |-> validateParamNames(segs.parts), router |-> r]
      ELSE
        LET r1 == lockIgnoreCase(r)
            ignoreCase == r1.ignoreCaseEnabled
            matchParts == IF ignoreCase THEN LowerParts(segs.parts) ELSE segs.parts
            matchPattern == IF ignoreCase THEN LowerPattern(cleaned, segs.parts)
                            ELSE cleaned
            hasParams == \E i \in 1..Len(matchParts) : IsParamPart(matchParts[i])
            grouped == applyMiddlewares(handler0, groupMws)
            composed == applyMiddlewares(grouped.handler, r1.middlewares)
            handler == composed.handler
            h == normalizeHost(host)
            r2 == tableForHostLocked(r1, h)
            table == TableOf(r2, h)
            root == IF method \in DOMAIN table.roots THEN table.roots[method]
                    ELSE NewNode(<< >>)
            ins == insert(root, matchPattern, matchParts, 0, handler, hasParams)
            t1 == [table EXCEPT !.roots = MapSet(table.roots, method, ins.node)]
        IN  IF grouped.err # "" THEN [err |-> grouped.err, router |-> r1]
            ELSE IF composed.err # "" THEN [err |-> composed.err, router |-> r1]
            ELSE IF ins.err = ""
              THEN [err |-> "",
                    router |-> [WithTable(r2, h,
                                  Registered(t1, method, matchPattern, handler, hasParams))
                                EXCEPT !.routesCount = r2.routesCount + 1]]
              ELSE [err |-> ins.err, router |-> WithTable(r2, h, t1)]

(***************************************************************************)
(* router/serve.go and router/router.go: dispatch.  A response records the *)
(* status, who wrote it, the route handler that ran with the parameters it *)
(* could read, and the Allow and Location headers.                         *)
(***************************************************************************)

NoHeader == << >>

Response(status, by, handler, params, allow, location) ==
  [status |-> status, by |-> by, handler |-> handler, params |-> params,
   allow |-> allow, location |-> location]

\* A route handler ran: it answers 200 and its body names it and the
\* parameters its writer exposes.
Handled(handler, params) ==
  Response(200, "handler", handler, params, NoHeader, NoHeader)

\* redirectToPath: 301 for GET and HEAD, 308 for the other methods.
redirectToPath(req, path) ==
  Response(IF req.method # "GET" /\ req.method # "HEAD" THEN 308 ELSE 301,
           "redirect", NoHandler, << >>, NoHeader, path)

NoResponse == Response(0, "none", NoHandler, << >>, NoHeader, NoHeader)

\* prepareRouteContext returned false: the response is already written.
Responded(resp) ==
  [ok |-> FALSE, method |-> "", matchPath |-> << >>, paramPath |-> << >>,
   resp |-> resp]

\* req.URL.RawPath: empty unless the request was built with one.
RawPathOf(req) == IF "rawPath" \in DOMAIN req THEN req.rawPath ELSE << >>

\* useRaw := useRawPath && req.URL.RawPath != "" &&
\*           req.URL.RawPath == req.URL.EscapedPath()
UseRaw(req, useRawPath) ==
  /\ useRawPath
  /\ RawPathOf(req) # << >>
  /\ RawPathOf(req) = EscapedPath(req.path, RawPathOf(req))

TooLong == Response(414, "router", NoHandler, << >>, NoHeader, NoHeader)

\* prepareRouteContext cleaning before it looks at the length.
prepareRouteContextCleanFirst(req, useRawPath, ignoreCase) ==
  LET cleaned == cleanPath(req.path)
  IN  IF cleaned # req.path THEN Responded(redirectToPath(req, cleaned))
      ELSE IF Len(req.path) > MaxPathLength
        THEN Responded(TooLong)
      ELSE [ok |-> TRUE, method |-> req.method,
            matchPath |-> IF ignoreCase THEN lowerASCII(cleaned) ELSE cleaned,
            paramPath |-> cleaned,
            resp |-> NoResponse]

\* prepareRouteContext
prepareRouteContext(req, useRawPath, ignoreCase) ==
  LET useRaw == UseRaw(req, useRawPath)
      cleaned == IF useRaw THEN req.path ELSE cleanPath(req.path)
      path == IF useRaw THEN RawPathOf(req) ELSE cleaned
  IN  IF Len(req.path) > MaxPathLength
        THEN Responded(TooLong)
      ELSE IF useRaw /\ Len(RawPathOf(req)) > MaxPathLength
        THEN Responded(TooLong)
      ELSE IF ~useRaw /\ Len(cleaned) > MaxPathLength
        THEN Responded(TooLong)
      ELSE IF ~useRaw /\ cleaned # req.path
        THEN Responded(redirectToPath(req, cleaned))
      ELSE [ok |-> TRUE, method |-> req.method,
            matchPath |-> IF ignoreCase THEN lowerASCII(path) ELSE path,
            paramPath |-> path,
            resp |-> NoResponse]

\* respondMethodNotAllowed: Allow is set; OPTIONS gets 200, otherwise the
\* override runs if there is one, otherwise 405.
respondMethodNotAllowedNoOptions(req, allow, override) ==
  IF override
    THEN Response(0, "MethodNotAllowed", NoHandler, << >>, allow, NoHeader)
    ELSE Response(405, "router", NoHandler, << >>, allow, NoHeader)
respondMethodNotAllowed(req, allow, override) ==
  IF req.method = "OPTIONS"
    THEN Response(200, "router", NoHandler, << >>, allow, NoHeader)
  ELSE IF override
    THEN Response(0, "MethodNotAllowed", NoHandler, << >>, allow, NoHeader)
  ELSE Response(405, "router", NoHandler, << >>, allow, NoHeader)

\* The end of ServeHTTP: the NotFound override, or http.NotFound.
respondNotFound(override) ==
  IF override
    THEN Response(0, "NotFound", NoHandler, << >>, NoHeader, NoHeader)
    ELSE Response(404, "router", NoHandler, << >>, NoHeader, NoHeader)

NotServed == [ok |-> FALSE, resp |-> NoResponse]
Served(resp) == [ok |-> TRUE, resp |-> resp]

\* The depth check of the lookup left out.
tooDeepNever(segs) == FALSE

\* if len(segs.parts) > MaxDepth { return false }
tooDeep(segs) == Len(segs.parts) > MaxDepth

\* Router.serveMethodInTable
serveMethodInTable(method, matchPath, rawPath, table) ==
  LET hasParams == method \in DOMAIN table.hasParams /\ table.hasParams[method]
      segs == getPartsWithRaw(matchPath, rawPath)
      root == table.roots[method]
      found == search(root, segs, 0, << >>, FALSE).node
  IN  IF method \in DOMAIN table.static /\ matchPath \in DOMAIN table.static[method]
        THEN Served(Handled(table.static[method][matchPath], << >>))
      ELSE IF ~hasParams THEN NotServed
      ELSE IF ~segs.ok THEN NotServed
      ELSE IF tooDeep(segs) THEN NotServed
      ELSE IF method \notin DOMAIN table.roots THEN NotServed
      ELSE IF found # NilNode /\ found.handler # NoHandler
        THEN IF ~found.hasParams
               THEN Served(Handled(found.handler, << >>))
               ELSE Served(Handled(found.handler,
                                   search(root, segs, 0, << >>, TRUE).params))
      ELSE NotServed

\* Router.serveInTable: HEAD falls back to GET.
serveInTableNoFallback(method, matchPath, rawPath, table) ==
  serveMethodInTable(method, matchPath, rawPath, table)
serveInTable(method, matchPath, rawPath, table) ==
  LET asHead == serveMethodInTable("HEAD", matchPath, rawPath, table)
  IN  IF method = "HEAD"
        THEN IF asHead.ok THEN asHead
             ELSE serveMethodInTable("GET", matchPath, rawPath, table)
        ELSE serveMethodInTable(method, matchPath, rawPath, table)

\* Router.allowedMethodsInTable, the range over table.static taken in order
\* ord1 and the range over table.hasParams in order ord2.
allowedMethodsInTableIn(matchPath, table, ord1, ord2) ==
  LET inStatic == {m \in DOMAIN table.static : matchPath \in DOMAIN table.static[m]}
      withParams == {m \in DOMAIN table.hasParams :
                       table.hasParams[m] /\ m \in DOMAIN table.roots}
      segs == getParts(matchPath)
      inTrie == {m \in withParams :
                   search(table.roots[m], segs, 0, << >>, FALSE).node # NilNode}
  IN  IF ~table.anyParams
        THEN IF matchPath \in DOMAIN table.staticAllow
               THEN [ok |-> TRUE, allow |-> table.staticAllow[matchPath]]
               ELSE [ok |-> FALSE, allow |-> << >>]
      ELSE IF withParams # {} /\ (~segs.ok \/ Len(segs.parts) > MaxDepth)
        THEN [ok |-> FALSE, allow |-> << >>]
      ELSE FinishAllow(FilterSeq(ord1, inStatic) \o FilterSeq(ord2, inTrie))

allowedMethodsInTable(matchPath, table) ==
  allowedMethodsInTableIn(matchPath, table, MapOrder, MapOrder)

\* The fast skip of the mutable router: a path without trailing slash in a
\* table that has no pattern with one.
NoTrailingToTry(matchPath, table) ==
  Len(matchPath) > 1 /\ matchPath[Len(matchPath)] # "/" /\ ~table.hasTrailing

\* Router.tryAlternateSlashInTable
tryAlternateSlashInTable(r, req, ctx, table) ==
  LET altMatch == alternatePath(ctx.matchPath)
      altRedirect == alternatePath(ctx.paramPath)
  IN  IF NoTrailingToTry(ctx.matchPath, table) THEN NotServed
      ELSE IF ~altMatch.ok \/ altMatch.path = ctx.matchPath THEN NotServed
      ELSE IF r.StrictSlash
        THEN IF allowedMethodsInTable(altMatch.path, table).ok
                  /\ altRedirect.ok /\ altRedirect.path # << >>
               THEN Served(redirectToPath(req, altRedirect.path))
               ELSE NotServed
      ELSE serveInTable(ctx.method, altMatch.path, altRedirect.path, table)

\* Router.handleMethodNotAllowedInTable
handleMethodNotAllowedInTable(r, req, ctx, table) ==
  LET here == allowedMethodsInTable(ctx.matchPath, table)
      altMatch == alternatePath(ctx.matchPath)
      there == allowedMethodsInTable(altMatch.path, table)
  IN  IF here.ok
        THEN Served(respondMethodNotAllowed(req, here.allow, r.MethodNotAllowed))
      ELSE IF r.StrictSlash THEN NotServed
      ELSE IF NoTrailingToTry(ctx.matchPath, table) THEN NotServed
      ELSE IF altMatch.ok /\ there.ok
        THEN Served(respondMethodNotAllowed(req, there.allow, r.MethodNotAllowed))
      ELSE NotServed

\* The three steps ServeHTTP takes in one table.
dispatchInTable(r, req, ctx, table) ==
  LET served == serveInTable(ctx.method, ctx.matchPath, ctx.paramPath, table)
      slash == tryAlternateSlashInTable(r, req, ctx, table)
  IN  IF served.ok THEN served
      ELSE IF slash.ok THEN slash
      ELSE handleMethodNotAllowedInTable(r, req, ctx, table)

\* Router.ServeHTTP consulting the default table before the host's table.
RouterServeHTTPDefaultFirst(r, req) ==
  LET ctx == prepareRouteContext(req, r.UseRawPath, ignoreCaseActive(r))
      host == normalizeHost(req.host)
      hasHost == host # << >> /\ host \in DOMAIN r.hosts
      inHost == dispatchInTable(r, req, ctx, r.hosts[host])
      inDefault == dispatchInTable(r, req, ctx, r.table)
  IN  IF ~ctx.ok THEN ctx.resp
      ELSE IF inDefault.ok THEN inDefault.resp
      ELSE IF hasHost /\ inHost.ok THEN inHost.resp
      ELSE respondNotFound(r.NotFound)

\* Router.ServeHTTP (the handlers of the model do not panic).
RouterServeHTTP(r, req) ==
  LET ctx == prepareRouteContext(req, r.UseRawPath, ignoreCaseActive(r))
      host == normalizeHost(req.host)
      hasHost == host # << >> /\ host \in DOMAIN r.hosts
      inHost == dispatchInTable(r, req, ctx, r.hosts[host])
      inDefault == dispatchInTable(r, req, ctx, r.table)
  IN  IF ~ctx.ok THEN ctx.resp
      ELSE IF hasHost /\ inHost.ok THEN inHost.resp
      ELSE IF inDefault.ok THEN inDefault.resp
      ELSE respondNotFound(r.NotFound)

(***************************************************************************)
(* router/frozen.go: Freeze and the FrozenRouter.  A frozen static node    *)
(* holds a span of several segments; the frozen table has no hasTrailing.  *)
(***************************************************************************)

OnlyChild(children) == children[CHOOSE part \in DOMAIN children : TRUE]

\* compressStaticChain, from node cur on with the parts collected so far.
RECURSIVE compressLoop(_, _)
compressLoop(cur, parts) ==
  IF cur.pattern # << >> \/ cur.handler # NoHandler
       \/ cur.paramChild # NilNode \/ cur.wildChild # NilNode
    THEN [parts |-> Append(parts, cur.part), end |-> cur]
  ELSE IF Cardinality(DOMAIN cur.staticChildren) # 1
    THEN [parts |-> Append(parts, cur.part), end |-> cur]
  ELSE compressLoop(OnlyChild(cur.staticChildren), Append(parts, cur.part))

compressStaticChain(start) == compressLoop(start, << >>)

RECURSIVE buildFrozenStatic(_, _)
RECURSIVE buildFrozenNode(_)

\* The frozen static children of a node: one compressed chain per child,
\* keyed by the first part of the chain.
frozenStaticChildrenOf(n) ==
  [part \in DOMAIN n.staticChildren |->
     LET chain == compressStaticChain(n.staticChildren[part])
     IN  buildFrozenStatic(chain.parts, chain.end)]

\* A frozen node without its parameter and wildcard children.
FrozenChildDropped(child) == NilNode

FrozenChild(child) == IF child = NilNode THEN NilNode ELSE buildFrozenNode(child)

buildFrozenStatic(parts, end) ==
  [staticSpan |-> JoinSlash(parts), spanSegs |-> Len(parts), part |-> << >>,
   staticChildren |-> frozenStaticChildrenOf(end),
   paramChild |-> FrozenChild(end.paramChild),
   wildChild |-> FrozenChild(end.wildChild),
   pattern |-> end.pattern, handler |-> end.handler, hasParams |-> end.hasParams]

buildFrozenNode(n) ==
  [staticSpan |-> << >>, spanSegs |-> 0, part |-> n.part,
   staticChildren |-> frozenStaticChildrenOf(n),
   paramChild |-> FrozenChild(n.paramChild),
   wildChild |-> FrozenChild(n.wildChild),
   pattern |-> n.pattern, handler |-> n.handler, hasParams |-> n.hasParams]

freezeRoot(root) ==
  [staticSpan |-> << >>, spanSegs |-> 0, part |-> << >>,
   staticChildren |-> frozenStaticChildrenOf(root),
   paramChild |-> FrozenChild(root.paramChild),
   wildChild |-> FrozenChild(root.wildChild),
   pattern |-> root.pattern, handler |-> root.handler,
   hasParams |-> root.hasParams]

freezeTable(src) ==
  [roots |-> [m \in DOMAIN src.roots |-> freezeRoot(src.roots[m])],
   static |-> src.static, staticAllow |-> src.staticAllow,
   hasParams |-> src.hasParams, anyParams |-> src.anyParams]

\* Router.Freeze
Freeze(r) ==
  [table |-> freezeTable(r.table),
   hosts |-> [h \in DOMAIN r.hosts |-> freezeTable(r.hosts[h])],
   IgnoreCase |-> IF r.ignoreCaseSet THEN r.ignoreCaseEnabled ELSE r.IgnoreCase,
   StrictSlash |-> r.StrictSlash,
   NotFound |-> r.NotFound, MethodNotAllowed |-> r.MethodNotAllowed,
   UseRawPath |-> r.UseRawPath,
   PanicHandler |-> r.PanicHandler]

\* frozenNode.search, after the span of the node has been matched.
RECURSIVE frozenSearch(_, _, _, _, _)
frozenSearchFrom(n, segs, height, params, collect) ==
  IF height = Len(segs.parts) \/ IsWildNode(n) THEN
    IF n.pattern = << >> THEN
      IF height = Len(segs.parts) /\ n.wildChild # NilNode
        THEN frozenSearch(n.wildChild, segs, height, params, collect)
        ELSE Miss(params)
    ELSE IF IsWildNode(n) /\ collect THEN
      LET start0 == segs.indices[height + 1]
          start == IF start0 < Len(segs.path) /\ segs.path[start0 + 1] = "/"
                     THEN start0 + 1 ELSE start0
      IN  [node |-> n,
           params |-> Append(params, <<Tail(n.part),
                                       Slice(segs.path, start, Len(segs.path))>>)]
    ELSE [node |-> n, params |-> params]
  ELSE
    LET part == segs.parts[height + 1]
        sc == IF n.staticChildren # << >>
                THEN staticGet(n.staticChildren, part) ELSE NilNode
        r1 == IF sc # NilNode
                THEN frozenSearch(sc, segs, height, params, collect)
                ELSE Miss(params)
        snapshot == Len(r1.params)
        start == segs.indices[height + 1]
        end == start + Len(part)
        value == IF start >= 0 /\ end <= Len(segs.path)
                   THEN Slice(segs.path, start, end) ELSE part
        r2 == IF n.paramChild # NilNode
                THEN LET r == frozenSearch(n.paramChild, segs, height + 1,
                                           IF collect
                                             THEN Append(r1.params,
                                                    <<Tail(n.paramChild.part), value>>)
                                             ELSE r1.params,
                                           collect)
                     IN  IF r.node # NilNode THEN r
                         ELSE Miss(Backtrack(r.params, snapshot, collect))
                ELSE Miss(r1.params)
    IN  IF r1.node # NilNode THEN r1
        ELSE IF r2.node # NilNode THEN r2
        ELSE IF n.wildChild # NilNode
          THEN frozenSearch(n.wildChild, segs, height, r2.params, collect)
          ELSE Miss(r2.params)

\* frozenNode.search: the span is compared with the match path first.
frozenSearch(n, segs, height, params, collect) ==
  IF height > MaxDepth THEN Miss(params)
  ELSE IF n.spanSegs > 0 THEN
    IF height + n.spanSegs > Len(segs.parts) THEN Miss(params)
    ELSE LET start == segs.indices[height + 1]
             last == height + n.spanSegs - 1
             end == segs.indices[last + 1] + Len(segs.parts[last + 1])
         IN  IF Slice(segs.match, start, end) # n.staticSpan THEN Miss(params)
             ELSE frozenSearchFrom(n, segs, height + n.spanSegs, params, collect)
  ELSE frozenSearchFrom(n, segs, height, params, collect)

\* FrozenRouter.serveMethodInTable
frozenServeMethodInTable(method, matchPath, rawPath, table) ==
  LET hasParams == method \in DOMAIN table.hasParams /\ table.hasParams[method]
      segs == getPartsWithRaw(matchPath, rawPath)
      root == table.roots[method]
      found == frozenSearch(root, segs, 0, << >>, FALSE).node
  IN  IF method \in DOMAIN table.static /\ matchPath \in DOMAIN table.static[method]
        THEN Served(Handled(table.static[method][matchPath], << >>))
      ELSE IF ~hasParams THEN NotServed
      ELSE IF ~segs.ok THEN NotServed
      ELSE IF Len(segs.parts) > MaxDepth THEN NotServed
      ELSE IF method \notin DOMAIN table.roots THEN NotServed
      ELSE IF found # NilNode /\ found.handler # NoHandler
        THEN IF ~found.hasParams
               THEN Served(Handled(found.handler, << >>))
               ELSE Served(Handled(found.handler,
                                   frozenSearch(root, segs, 0, << >>, TRUE).params))
      ELSE NotServed

\* FrozenRouter.serveInTable
frozenServeInTable(method, matchPath, rawPath, table) ==
  LET asHead == frozenServeMethodInTable("HEAD", matchPath, rawPath, table)
  IN  IF method = "HEAD"
        THEN IF asHead.ok THEN asHead
             ELSE frozenServeMethodInTable("GET", matchPath, rawPath, table)
        ELSE frozenServeMethodInTable(method, matchPath, rawPath, table)

\* FrozenRouter.allowedMethodsInTable
frozenAllowedMethodsInTable(matchPath, table) ==
  LET inStatic == {m \in DOMAIN table.static : matchPath \in DOMAIN table.static[m]}
      withParams == {m \in DOMAIN table.hasParams :
                       table.hasParams[m] /\ m \in DOMAIN table.roots}
      segs == getParts(matchPath)
      inTrie == {m \in withParams :
                   frozenSearch(table.roots[m], segs, 0, << >>, FALSE).node # NilNode}
  IN  IF ~table.anyParams
        THEN IF matchPath \in DOMAIN table.staticAllow
               THEN [ok |-> TRUE, allow |-> table.staticAllow[matchPath]]
               ELSE [ok |-> FALSE, allow |-> << >>]
      ELSE IF withParams # {} /\ (~segs.ok \/ Len(segs.parts) > MaxDepth)
        THEN [ok |-> FALSE, allow |-> << >>]
      ELSE FinishAllow(FilterSeq(MapOrder, inStatic) \o FilterSeq(MapOrder, inTrie))

\* FrozenRouter.tryAlternateSlashInTable
frozenTryAlternateSlashInTable(fr, req, ctx, table) ==
  LET altMatch == alternatePath(ctx.matchPath)
      altRedirect == alternatePath(ctx.paramPath)
  IN  IF ~altMatch.ok \/ altMatch.path = ctx.matchPath THEN NotServed
      ELSE IF fr.StrictSlash
        THEN IF frozenAllowedMethodsInTable(altMatch.path, table).ok
                  /\ altRedirect.ok /\ altRedirect.path # << >>
               THEN Served(redirectToPath(req, altRedirect.path))
               ELSE NotServed
      ELSE frozenServeInTable(ctx.method, altMatch.path, altRedirect.path, table)

\* FrozenRouter.handleMethodNotAllowedInTable
frozenHandleMethodNotAllowedInTable(fr, req, ctx, table) ==
  LET here == frozenAllowedMethodsInTable(ctx.matchPath, table)
      altMatch == alternatePath(ctx.matchPath)
      there == frozenAllowedMethodsInTable(altMatch.path, table)
  IN  IF here.ok
        THEN Served(respondMethodNotAllowed(req, here.allow, fr.MethodNotAllowed))
      ELSE IF fr.StrictSlash THEN NotServed
      ELSE IF altMatch.ok /\ there.ok
        THEN Served(respondMethodNotAllowed(req, there.allow, fr.MethodNotAllowed))
      ELSE NotServed

frozenDispatchInTable(fr, req, ctx, table) ==
  LET served == frozenServeInTable(ctx.method, ctx.matchPath, ctx.paramPath, table)
      slash == frozenTryAlternateSlashInTable(fr, req, ctx, table)
  IN  IF served.ok THEN served
      ELSE IF slash.ok THEN slash
      ELSE frozenHandleMethodNotAllowedInTable(fr, req, ctx, table)

\* FrozenRouter.ServeHTTP
FrozenServeHTTP(fr, req) ==
  LET ctx == prepareRouteContext(req, fr.UseRawPath, fr.IgnoreCase)
      host == normalizeHost(req.host)
      hasHost == host # << >> /\ host \in DOMAIN fr.hosts
      inHost == frozenDispatchInTable(fr, req, ctx, fr.hosts[host])
      inDefault == frozenDispatchInTable(fr, req, ctx, fr.table)
  IN  IF ~ctx.ok THEN ctx.resp
      ELSE IF hasHost /\ inHost.ok THEN inHost.resp
      ELSE IF inDefault.ok THEN inDefault.resp
      ELSE respondNotFound(fr.NotFound)

(***************************************************************************)
(*                         Router: groups                                  *)
(***************************************************************************)

\* strings.TrimSuffix(s, "/")
TrimSuffixSlash(s) ==
  IF s # << >> /\ s[Len(s)] = "/" THEN SubSeq(s, 1, Len(s) - 1) ELSE s

\* cleanPrefix
cleanPrefix(prefix) ==
  IF prefix = << >> THEN << >>
  ELSE IF cleanPath(prefix) = <<"/">> THEN << >>
  ELSE TrimSuffixSlash(cleanPath(prefix))

\* joinPaths
joinPaths(prefix, pattern) ==
  IF prefix = << >> THEN pattern
  ELSE IF pattern = << >> THEN prefix
  ELSE TrimSuffixSlash(prefix)
       \o (IF pattern[1] # "/" THEN <<"/">> \o pattern ELSE pattern)

\* newGroup: the group holds a copy of the middlewares it is given.
newGroup(host, prefix, mw) == [host |-> host, prefix |-> prefix, middlewares |-> mw]

\* Router.Group
RouterGroup(prefix, mw) == newGroup(<< >>, cleanPrefix(prefix), mw)

\* Group.Use
GroupUse(g, mw) ==
  IF mw = << >> THEN g ELSE [g EXCEPT !.middlewares = g.middlewares \o mw]

\* Group.Group: the nested group's own middlewares before the parent's.
GroupGroupOwnFirst(g, prefix, mw) ==
  newGroup(g.host, joinPaths(g.prefix, cleanPrefix(prefix)), mw \o g.middlewares)

\* Group.Group
GroupGroup(g, prefix, mw) ==
  newGroup(g.host, joinPaths(g.prefix, cleanPrefix(prefix)), g.middlewares \o mw)

(***************************************************************************)
(*              ACCESS LOG MIDDLEWARE (package middleware)                 *)
(***************************************************************************)

\* Requests served through AccessLog(rb, next), rb # nil, one goroutine each.
MaxRequests == 2
ALRequests == 1..MaxRequests

\* Calls the inner handler makes on the statusWriter before it finishes.
MaxHandlerSteps == 2

StatusOK == 200
StatusNoContent == 204
StatusInternalServerError == 500

\* The codes the inner handlers pass to WriteHeader.
HandlerCodes == {StatusNoContent}

\* al[r]: the AccessLog call serving request r. status is sw.status, recovered
\* says whether the deferred function recovered a panic, sets lists the
\* statuses the inner handler set (WriteHeader(code), or 200 by Write), event
\* is the Status field of the LogEvent, attempts counts the rb.TryWrite calls,
\* p is the producer the TryWrite call runs as.
VARIABLES al

alVars == <<al>>

IdleCall == [pc |-> "idle", status |-> 0, recovered |-> FALSE, sets |-> << >>,
             steps |-> 0, event |-> 0, attempts |-> 0, p |-> 0]

ALIdle == al = [r \in ALRequests |-> IdleCall]

\* func (w *statusWriter) WriteHeader(code int): the status after the call.
WriteHeaderLastWins(status, code) == code

WriteHeader(status, code) == IF status = 0 THEN code ELSE status

\* func (w *statusWriter) Write(p []byte): the status after the call.
Write(status) == IF status = 0 THEN StatusOK ELSE status

\* func statusToUint16(status int) uint16
statusToUint16(status) ==
  IF status <= 0 THEN 0
  ELSE IF status > 65535 THEN 65535
  ELSE status

\* The deferred function's choice of the status to log.
LoggedStatusNoRecover(status, recovered) ==
  IF status = 0 THEN StatusOK ELSE status

LoggedStatus(status, recovered) ==
  IF status = 0
    THEN (IF recovered THEN StatusInternalServerError ELSE StatusOK)
    ELSE status

\* The wrapper is entered: sw comes from the pool with status = 0, and
\* next.ServeHTTP(sw, r) begins. Requests are interchangeable: request r
\* arrives after requests 1..r-1.
ALServeHTTP(r) ==
  /\ al[r].pc = "idle"
  /\ \A q \in ALRequests : q < r => al[q].pc # "idle"
  /\ al' = [al EXCEPT ![r].pc = "handler", ![r].status = 0]
  /\ UNCHANGED rbVars

\* The inner handler calls sw.WriteHeader(code).
ALWriteHeader(r, code) ==
  /\ al[r].pc = "handler"
  /\ al[r].steps < MaxHandlerSteps
  /\ al' = [al EXCEPT ![r].status = WriteHeader(al[r].status, code),
                      ![r].sets = Append(al[r].sets, code),
                      ![r].steps = al[r].steps + 1]
  /\ UNCHANGED rbVars

\* The inner handler calls sw.Write(p).
ALWrite(r) ==
  /\ al[r].pc = "handler"
  /\ al[r].steps < MaxHandlerSteps
  /\ al' = [al EXCEPT ![r].status = Write(al[r].status),
                      ![r].sets = Append(al[r].sets, StatusOK),
                      ![r].steps = al[r].steps + 1]
  /\ UNCHANGED rbVars

\* The inner handler calls sw.Flush(): the status is left alone.
ALFlush(r) ==
  /\ al[r].pc = "handler"
  /\ al[r].steps < MaxHandlerSteps
  /\ al' = [al EXCEPT ![r].steps = al[r].steps + 1]
  /\ UNCHANGED rbVars

\* next.ServeHTTP returns (panicked = FALSE) or panics; the deferred function
\* runs: recover(), the status to log, the event.
ALHandlerDone(r, panicked) ==
  /\ al[r].pc = "handler"
  /\ al' = [al EXCEPT ![r].pc = "deferred",
                      ![r].recovered = panicked,
                      ![r].status = 0,
                      ![r].event = statusToUint16(LoggedStatus(al[r].status, panicked))]
  /\ UNCHANGED rbVars

\* _ = rb.TryWrite(event): the call, as producer p.
ALTryWrite(r) ==
  /\ al[r].pc = "deferred"
  /\ \E p \in Producers :
       /\ \A q \in ALRequests : al[q].pc = "trywrite" => al[q].p # p
       /\ TryWriteCall(p)
       /\ al' = [al EXCEPT ![r].pc = "trywrite", ![r].p = p,
                           ![r].attempts = al[r].attempts + 1]

\* The TryWrite call of request r goes on.
ALTryWriteStep(r) ==
  /\ al[r].pc = "trywrite"
  /\ TryWriteStep(al[r].p)
  /\ UNCHANGED al

\* TryWrite has returned: if recovered != nil { panic(recovered) }
ALReturn(r) ==
  /\ al[r].pc = "trywrite"
  /\ prod[al[r].p].pc = "idle"
  /\ al' = [al EXCEPT ![r].pc = IF al[r].recovered THEN "panicked" ELSE "returned"]
  /\ UNCHANGED rbVars

AccessLog(r) ==
  \/ ALServeHTTP(r)
  \/ \E code \in HandlerCodes : ALWriteHeader(r, code)
  \/ ALWrite(r)
  \/ ALFlush(r)
  \/ \E panicked \in BOOLEAN : ALHandlerDone(r, panicked)
  \/ ALTryWrite(r)
  \/ ALTryWriteStep(r)
  \/ ALReturn(r)

(***************************************************************************)
(*        FuzzRouter_GetPartsInvariants: getParts on arbitrary paths       *)
(***************************************************************************)

\* Bound of the parsing model: bytes in a path.
MaxFuzzLen == 4

FuzzBytes == {"/", "a", "B", "\n", "\r", "NUL"}

RECURSIVE StringsUpTo(_)
StringsUpTo(n) ==
  IF n = 0 THEN {<< >>}
  ELSE LET shorter == StringsUpTo(n - 1)
       IN  shorter \cup {Append(s, c) : s \in {t \in shorter : Len(t) = n - 1},
                                         c \in FuzzBytes}

FuzzPaths == StringsUpTo(MaxFuzzLen)

\* fuzzInput is the path handed to the parser, fuzzSegs what it returned.
VARIABLES fuzzInput, fuzzSegs

fzVars == <<fuzzInput, fuzzSegs>>

NoSegs == [ok |-> FALSE, path |-> << >>, match |-> << >>, parts |-> << >>,
           indices |-> << >>, called |-> FALSE]

FZIdle == fuzzInput = << >> /\ fuzzSegs = NoSegs

FuzzInit == fuzzInput \in FuzzPaths /\ fuzzSegs = NoSegs

Called(segs) ==
  [ok |-> segs.ok, path |-> segs.path, match |-> segs.match,
   parts |-> segs.parts, indices |-> segs.indices, called |-> TRUE]

\* segs, ok := r.getParts(path)
FuzzGetParts ==
  /\ ~fuzzSegs.called
  /\ fuzzSegs' = Called(getParts(fuzzInput))
  /\ UNCHANGED fuzzInput

\* segs, ok := r.getPartsWithRaw(matchPath, rawPath) under IgnoreCase.
FuzzGetPartsWithRaw ==
  /\ ~fuzzSegs.called
  /\ fuzzSegs' = Called(getPartsWithRaw(lowerASCII(fuzzInput), fuzzInput))
  /\ UNCHANGED fuzzInput

(***************************************************************************)
(* The router as a state machine: routes are registered with Handle, the   *)
(* router is frozen with Freeze, requests are served by the Router and by  *)
(* the FrozenRouter.  Serving reads the tables and writes nothing to them: *)
(* the response to request r is RouterServeHTTP(router, r), respectively   *)
(* FrozenServeHTTP(frozen, r), in the state the request is served in.      *)
(***************************************************************************)

VARIABLES
  router,      \* the Router: tables, route count, flags and overrides
  frozen,      \* the FrozenRouter of the last Freeze, NoFrozen before it
  routes,      \* history: the registrations that returned nil
  op,          \* the last operation
  lastErr      \* the error of the last Handle, "" for nil

rtVars == <<router, frozen, routes, op, lastErr>>

NoFrozen == [nilRouter |-> TRUE]

\* NewRouter, then the public fields set by the application before the first
\* registration.
NewRouter(ignoreCase, strictSlash, methodNotAllowed) ==
  [table |-> newRouteTable, hosts |-> << >>, routesCount |-> 0,
   ignoreCaseSet |-> FALSE, ignoreCaseEnabled |-> FALSE,
   middlewares |-> << >>,
   IgnoreCase |-> ignoreCase, StrictSlash |-> strictSlash,
   UseRawPath |-> FALSE,
   NotFound |-> FALSE, MethodNotAllowed |-> methodNotAllowed,
   PanicHandler |-> FALSE]

\* The registrations that are tried.  Reg(host, method, pattern) passes a
\* handler of its own through the router or through Host(host); the last
\* ones of Rejected pass a nil handler, respectively go through a Group("/")
\* whose middleware returns a nil handler.
Reg(host, method, pattern) ==
  [host |-> host, method |-> method, pattern |-> pattern, nilHandler |-> FALSE,
   groupMws |-> << >>]

\* Bound of the router model: middlewares added with Use.
MaxMiddlewares == 1

\* The middlewares Use is called with.
Middlewares == {NilMiddleware, "M"}

GetPatterns ==
  { <<"/">>, <<"/", "a">>, <<"/", "a", "/">>, <<"/", "A">>,
    <<"/", ":", "i">>, <<"/", ":", "j">>, <<"/", "*", "w">>,
    <<"/", "a", "/", "b">>, <<"/", ":", "i", "/", "b">> }

PostPatterns == { <<"/", "a">>, <<"/", "a", "/">> }

\* Rejected whatever is registered: wildcard without a name, repeated
\* parameter name, pattern that is not canonical, method with a space, nil
\* handler, group middleware that returns nil.
Rejected ==
  { Reg(<< >>, "GET", <<"/", "a", "/", "*">>),
    Reg(<< >>, "GET", <<"/", ":", "i", "/", ":", "i">>),
    Reg(<< >>, "GET", <<"/", "a", "/", "/", "b">>),
    Reg(<< >>, "GE T", <<"/", "a">>),
    [host |-> << >>, method |-> "GET", pattern |-> <<"/", "b">>,
     nilHandler |-> TRUE, groupMws |-> << >>],
    [host |-> << >>, method |-> "GET", pattern |-> <<"/", "b">>,
     nilHandler |-> FALSE, groupMws |-> <<ReturnsNil>>] }

Registrations ==
  {Reg(<< >>, "GET", p) : p \in GetPatterns}
  \cup {Reg(<< >>, "POST", p) : p \in PostPatterns}
  \cup { Reg(<<"H">>, "GET", <<"/", "a">>),
         Reg(<<"H">>, "POST", <<"/", "a", "/">>) }
  \cup Rejected

\* The requests that are served.
RequestPaths ==
  { <<"/">>, <<"/", "a">>, <<"/", "a", "/">>, <<"/", "A">>, <<"/", "b">>,
    <<"/", "b", "/">>, <<"/", "a", "/", "b">>, <<"/", "a", "/", "b", "/">>,
    <<"/", "a", "/", "/", "b">> }

Requests ==
  [method : {"GET", "HEAD", "POST", "OPTIONS"}, path : RequestPaths,
   host : {<< >>, <<"h", ":", "8">>}]

\* The handler passed by a registration: one function per registration.
HandlerOf(reg) ==
  IF reg.nilHandler THEN NoHandler
  ELSE [host |-> reg.host, method |-> reg.method, pattern |-> reg.pattern]

\* Bound of the Allow model: routes registered in one behaviour.
MaxAllowRoutes == 3

\* The registrations of the Allow model: standard and custom methods on a
\* static and a parameter pattern, GET also with a trailing slash and on a
\* host.
AllowRegistrations ==
  {Reg(<< >>, m, p) : m \in {"GET", "HEAD", "POST", "LINK", "PURGE"},
                      p \in {<<"/", "a">>, <<"/", ":", "i">>}}
  \cup {Reg(<< >>, "GET", <<"/", "a", "/">>), Reg(<<"h">>, "GET", <<"/", "a">>)}

AllowPaths == {<<"/", "a">>, <<"/", "a", "/">>, <<"/", "b">>}

AllowRequests ==
  [method : {"GET", "HEAD", "POST", "DELETE", "OPTIONS"}, path : AllowPaths,
   host : {<< >>, <<"h">>}]

\* NewRouter with StrictSlash set or cleared before the first registration.
AllowInit ==
  /\ \E ss \in BOOLEAN : router = NewRouter(FALSE, ss, FALSE)
  /\ frozen = NoFrozen
  /\ routes = {}
  /\ op = "none"
  /\ lastErr = ""

RTInit ==
  /\ \E ic \in BOOLEAN, ss \in BOOLEAN, mna \in BOOLEAN :
       router = NewRouter(ic, ss, mna)
  /\ frozen = NoFrozen
  /\ routes = {}
  /\ op = "none"
  /\ lastErr = ""

\* Router.Use without the check of routesCount.
RouterUseUnguarded(mws, maxMiddlewares) ==
  /\ Len(router.middlewares) + Len(mws) <= maxMiddlewares
  /\ router' = [router EXCEPT !.middlewares = @ \o mws]
  /\ lastErr' = ""
  /\ op' = "Use"
  /\ UNCHANGED <<frozen, routes>>

\* Router.Use(mws...), while the router holds at most maxMiddlewares
\* middlewares.
RouterUse(mws, maxMiddlewares) ==
  /\ router.routesCount > 0 \/ Len(router.middlewares) + Len(mws) <= maxMiddlewares
  /\ IF mws = << >>
       THEN /\ lastErr' = ""
            /\ UNCHANGED router
       ELSE IF router.routesCount > 0
       THEN /\ lastErr' = "cannot add middleware after routes are registered"
            /\ UNCHANGED router
       ELSE /\ router' = [router EXCEPT !.middlewares = @ \o mws]
            /\ lastErr' = ""
  /\ op' = IF mws = << >> THEN "UseNothing" ELSE "Use"
  /\ UNCHANGED <<frozen, routes>>

\* Router.Use with one middleware
Use(mw) == RouterUse(<<mw>>, MaxMiddlewares)

\* Router.Handle / Group.Handle, while the router holds fewer than maxRoutes
\* routes.
HandleUpTo(reg, maxRoutes) ==
  LET res == handle(router, reg.host, reg.method, reg.pattern, HandlerOf(reg),
                    reg.groupMws)
  IN  /\ router.routesCount < maxRoutes \/ res.err # ""
      /\ router' = res.router
      /\ lastErr' = res.err
      /\ routes' = IF res.err = ""
                     THEN routes \cup {[host |-> normalizeHost(reg.host),
                                        method |-> reg.method,
                                        pattern |-> reg.pattern]}
                     ELSE routes
      /\ op' = "Handle"
      /\ UNCHANGED frozen

Handle(reg) == HandleUpTo(reg, MaxRoutes)

\* Router.Freeze
FreezeRouter ==
  /\ frozen' = Freeze(router)
  /\ op' = "Freeze"
  /\ lastErr' = ""
  /\ UNCHANGED <<router, routes>>

\* Router.ServeHTTP.  It reads the tables under the read lock and writes
\* nothing to the router; what request r is answered in this state is
\* RouterServeHTTP(router, r).
ServeHTTP ==
  /\ op' = "ServeHTTP"
  /\ lastErr' = ""
  /\ UNCHANGED <<router, frozen, routes>>

\* FrozenRouter.ServeHTTP.  What request r is answered in this state is
\* FrozenServeHTTP(frozen, r).
FrozenRouterServeHTTP ==
  /\ frozen # NoFrozen
  /\ op' = "FrozenServeHTTP"
  /\ lastErr' = ""
  /\ UNCHANGED <<router, frozen, routes>>

\* Bound of the preprocessing model: routes registered in one behaviour.
MaxCleanRoutes == 2

\* The registrations of the preprocessing model.
CleanRegistrations ==
  { Reg(<< >>, "GET", <<"/", "a">>), Reg(<< >>, "GET", <<"/", "a", "/">>),
    Reg(<< >>, "GET", <<"/", ":", "i">>), Reg(<< >>, "GET", <<"/", "*", "w">>),
    Reg(<< >>, "POST", <<"/", "a", "/", "b">>) }

\* A path of n bytes: `lead` times the byte `first`, then 'a's.
LongPath(n, lead, first) == [k \in 1..n |-> IF k <= lead THEN first ELSE "a"]

\* Request paths around MaxPathLength, canonical and not, and short paths
\* that are not canonical.
CleanPaths ==
  { LongPath(MaxPathLength + 1, 1, "/"), LongPath(MaxPathLength + 1, 2, "/"),
    LongPath(MaxPathLength, 1, "/"), LongPath(MaxPathLength, 2, "/"),
    LongPath(MaxPathLength, 0, "/"),
    << >>, <<"a">>, <<"/", "a">>, <<"/", "a", "/">>, <<"/", "b", "/", "c">>,
    <<"/", "a", "/", "/", "b">>, <<"/", "a", "/", ".", ".", "/", "b">>,
    <<"/", "a", "/", ".", "/">>, <<"/", ".", ".">>, <<"/", "x", "/", "/", "y">> }

CleanRequests == [method : {"GET", "HEAD", "POST"}, path : CleanPaths, host : {<< >>}]

\* NewRouter with IgnoreCase and StrictSlash set or cleared.
CleanInit ==
  /\ \E ic \in BOOLEAN, ss \in BOOLEAN : router = NewRouter(ic, ss, FALSE)
  /\ frozen = NoFrozen
  /\ routes = {}
  /\ op = "none"
  /\ lastErr = ""

\* Bound of the host model: routes registered in one behaviour.
MaxHostRoutes == 3

\* The registrations of the host model: routes of the default table and of
\* the table of host "h" (also written "H").
HostRegistrations ==
  { Reg(<< >>, "GET", <<"/", "a">>), Reg(<< >>, "GET", <<"/", ":", "i">>),
    Reg(<< >>, "POST", <<"/", ":", "i">>), Reg(<< >>, "POST", <<"/", "a", "/">>),
    Reg(<<"h">>, "GET", <<"/", "a">>), Reg(<<"h">>, "GET", <<"/", "a", "/">>),
    Reg(<<"h">>, "GET", <<"/", "b">>), Reg(<<"H">>, "POST", <<"/", "a">>),
    Reg(<<"g">>, "GET", <<"/", "a">>) }

HostPaths == { <<"/", "a">>, <<"/", "a", "/">>, <<"/", "b">>, <<"/", "c">> }

HostRequests ==
  [method : {"GET", "HEAD", "POST", "OPTIONS"}, path : HostPaths,
   host : {<< >>, <<"h">>, <<"H", ":", "8">>, <<"x">>}]

\* NewRouter with StrictSlash set or cleared.
HostInit ==
  /\ \E ss \in BOOLEAN : router = NewRouter(FALSE, ss, FALSE)
  /\ frozen = NoFrozen
  /\ routes = {}
  /\ op = "none"
  /\ lastErr = ""

\* Bound of the case model: routes registered in one behaviour.
MaxCaseRoutes == 3

\* The registrations of the case model: patterns with upper-case letters in
\* literal segments and in parameter names.
CaseRegistrations ==
  { Reg(<< >>, "GET", <<"/", "A", "/", ":", "I">>),
    Reg(<< >>, "GET", <<"/", "a", "/", "b">>),
    Reg(<< >>, "GET", <<"/", "A", "/", "*", "W">>),
    Reg(<< >>, "GET", <<"/", ":", "I">>),
    Reg(<< >>, "GET", <<"/", "A", "b">>),
    Reg(<< >>, "GET", <<"/", ":", "I", "/", "B", "/">>),
    Reg(<< >>, "POST", <<"/", "A", "/", ":", "I">>) }

CasePaths ==
  { <<"/", "a", "/", "b">>, <<"/", "A", "/", "B">>, <<"/", "a", "/", "B", "c">>,
    <<"/", "A", "/", "C">>, <<"/", "A", "b">>, <<"/", "a", "B">>, <<"/", "C">>,
    <<"/", "a", "/", "B", "/", "C">>, <<"/", "A", "/", "B", "/", "C", "/">>,
    <<"/", "C", "/", "b", "/">>, <<"/", "A", "/">>, <<"/", "A">> }

CaseRequests == [method : {"GET", "POST"}, path : CasePaths, host : {<< >>}]

\* NewRouter with IgnoreCase and StrictSlash set or cleared.
CaseInit ==
  /\ \E ic \in BOOLEAN, ss \in BOOLEAN : router = NewRouter(ic, ss, FALSE)
  /\ frozen = NoFrozen
  /\ routes = {}
  /\ op = "none"
  /\ lastErr = ""

\* Bound of the latch model: routes registered in one behaviour.
MaxLatchRoutes == 2

\* The registrations of the latch model; the last two fail, one before and
\* one after handle has called lockIgnoreCase.
LatchRegistrations ==
  { Reg(<< >>, "GET", <<"/", "A">>), Reg(<< >>, "GET", <<"/", "a">>),
    Reg(<< >>, "GET", <<"/", "B", "/", ":", "I">>),
    [host |-> << >>, method |-> "GET", pattern |-> <<"/", "A">>,
     nilHandler |-> TRUE, groupMws |-> << >>],
    [host |-> << >>, method |-> "GET", pattern |-> <<"/", "A">>,
     nilHandler |-> FALSE, groupMws |-> <<ReturnsNil>>] }

LatchPaths == { <<"/", "A">>, <<"/", "a">>, <<"/", "b", "/", "C">> }

LatchRequests == [method : {"GET"}, path : LatchPaths, host : {<< >>}]

\* NewRouter with IgnoreCase set or cleared.
LatchInit ==
  /\ \E ic \in BOOLEAN : router = NewRouter(ic, TRUE, FALSE)
  /\ frozen = NoFrozen
  /\ routes = {}
  /\ op = "none"
  /\ lastErr = ""

\* An assignment to the exported field IgnoreCase.
SetIgnoreCase(v) ==
  /\ router' = [router EXCEPT !.IgnoreCase = v]
  /\ op' = "SetIgnoreCase"
  /\ lastErr' = ""
  /\ UNCHANGED <<frozen, routes>>

\* Bounds of the middleware model: routes registered and middlewares added
\* with Router.Use in one behaviour.
MaxMwRoutes == 2

MaxUsed == 2

\* The arguments Router.Use is called with.
UseArgs == { << >>, <<"M">>, <<"M", "N">>, <<NilMiddleware>> }

\* The registrations of the middleware model.  With depth 0 the route is
\* registered on the router; with depth 1 on
\* r.Group(prefix1, mws1...).Use(use1...); with depth 2 on the group which
\* Group(prefix2, mws2...) of that group returns.
GroupRegistrations ==
  [depth : {0}, prefix1 : {<< >>}, mws1 : {<< >>}, use1 : {<< >>},
   prefix2 : {<< >>}, mws2 : {<< >>},
   method : {"GET"}, pattern : {<<"/", "a">>, <<"/", ":", "i">>}]
  \cup
  [depth : {1}, prefix1 : {<<"/", "p", "/">>}, mws1 : {<< >>, <<"G">>},
   use1 : {<< >>, <<"H">>}, prefix2 : {<< >>}, mws2 : {<< >>},
   method : {"GET"}, pattern : {<<"/", "a">>}]
  \cup
  [depth : {2}, prefix1 : {<<"/", "p", "/">>}, mws1 : {<<"G">>},
   use1 : {<< >>, <<"H">>}, prefix2 : {<<"/", "n">>},
   mws2 : {<<"K">>, <<"K", "L">>},
   method : {"GET"}, pattern : {<<"/", "a">>}]

\* The group a registration goes through (for depth 0 a group that adds
\* nothing, as Router.Handle passes no group middlewares).
GroupOf(greg) ==
  LET parent == GroupUse(RouterGroup(greg.prefix1, greg.mws1), greg.use1)
  IN  IF greg.depth = 0 THEN newGroup(<< >>, << >>, << >>)
      ELSE IF greg.depth = 1 THEN parent
      ELSE GroupGroup(parent, greg.prefix2, greg.mws2)

\* Group.Handle (Router.Handle for depth 0), while the router holds fewer
\* than maxRoutes routes.  routes records what the application passed.
GroupHandle(greg, maxRoutes) ==
  LET g == GroupOf(greg)
      pattern == joinPaths(g.prefix, greg.pattern)
      res == handle(router, g.host, greg.method, pattern,
                    [host |-> g.host, method |-> greg.method, pattern |-> pattern],
                    g.middlewares)
  IN  /\ router.routesCount < maxRoutes \/ res.err # ""
      /\ router' = res.router
      /\ lastErr' = res.err
      /\ routes' = IF res.err = ""
                     THEN routes \cup {[host |-> normalizeHost(g.host),
                                        method |-> greg.method,
                                        pattern |-> pattern,
                                        parentMws |-> greg.mws1 \o greg.use1,
                                        nestedMws |-> greg.mws2]}
                     ELSE routes
      /\ op' = "Handle"
      /\ UNCHANGED frozen

MwPaths ==
  { <<"/", "a">>, <<"/", "x">>, <<"/", "p", "/", "a">>,
    <<"/", "p", "/", "n", "/", "a">> }

MwRequests == [method : {"GET"}, path : MwPaths, host : {<< >>}]

MwInit ==
  /\ router = NewRouter(FALSE, TRUE, FALSE)
  /\ frozen = NoFrozen
  /\ routes = {}
  /\ op = "none"
  /\ lastErr = ""

\* Bound of the duplicate model: routes registered in one behaviour.
MaxDupRoutes == 2

\* The registrations of the duplicate model: the same patterns, with and
\* without trailing slash, under two methods and two hosts, each with two
\* different handlers.
DupRegistrations ==
  [host : {<< >>, <<"h">>}, method : {"GET", "POST"},
   pattern : {<<"/", "a">>, <<"/", "a", "/">>, <<"/", ":", "i">>},
   id : {1, 2}]

\* Handle with the handler `id` of the application.
DupHandle(dreg, maxRoutes) ==
  LET res == handle(router, dreg.host, dreg.method, dreg.pattern, dreg, << >>)
  IN  /\ router.routesCount < maxRoutes \/ res.err # ""
      /\ router' = res.router
      /\ lastErr' = res.err
      /\ routes' = IF res.err = "" THEN routes \cup {dreg} ELSE routes
      /\ op' = "Handle"
      /\ UNCHANGED frozen

DupPaths == { <<"/", "a">>, <<"/", "a", "/">>, <<"/", "x">>, <<"/", "x", "/">> }

DupRequests ==
  [method : {"GET", "POST"}, path : DupPaths, host : {<< >>, <<"h">>}]

\* NewRouter with StrictSlash set or cleared.
DupInit ==
  /\ \E ss \in BOOLEAN : router = NewRouter(FALSE, ss, FALSE)
  /\ frozen = NoFrozen
  /\ routes = {}
  /\ op = "none"
  /\ lastErr = ""

\* Bound of the panic model: routes registered in one behaviour.
MaxPanicRoutes == 2

\* No panic.
NoPanic == "none"

\* The registrations of the panic model: handlers that return and handlers
\* that panic with a value, on a static and on a parameter route.
PanicRegistrations ==
  [host : {<< >>}, method : {"GET"}, pattern : {<<"/", "a">>},
   panics : {NoPanic, "boom"}]
  \cup
  [host : {<< >>}, method : {"GET"}, pattern : {<<"/", ":", "i">>},
   panics : {NoPanic, "bang"}]

\* Handle with a handler that panics with preg.panics, or returns.
PanicHandle(preg, maxRoutes) ==
  LET res == handle(router, preg.host, preg.method, preg.pattern, preg, << >>)
  IN  /\ router.routesCount < maxRoutes \/ res.err # ""
      /\ router' = res.router
      /\ lastErr' = res.err
      /\ routes' = IF res.err = "" THEN routes \cup {preg} ELSE routes
      /\ op' = "Handle"
      /\ UNCHANGED frozen

PanicPaths == { <<"/", "a">>, <<"/", "x">>, <<"/", "a", "/", "b">>, <<"/", "a", "/">> }

PanicRequests == [method : {"GET", "HEAD", "POST"}, path : PanicPaths, host : {<< >>}]

\* NewRouter with PanicHandler set or left nil.
PanicInit ==
  /\ \E ph \in BOOLEAN, ss \in BOOLEAN :
       router = [NewRouter(FALSE, ss, FALSE) EXCEPT !.PanicHandler = ph]
  /\ frozen = NoFrozen
  /\ routes = {}
  /\ op = "none"
  /\ lastErr = ""

\* Bound of the raw-path model: routes registered in one behaviour.
MaxRawRoutes == 2

\* The registrations of the raw-path model; the last pattern is written in
\* its encoded form.
RawRegistrations ==
  { Reg(<< >>, "GET", <<"/", "f", "/", ":", "n">>),
    Reg(<< >>, "GET", <<"/", "f", "/", "*", "w">>),
    Reg(<< >>, "GET", <<"/", "a", "/", "b">>),
    Reg(<< >>, "GET", <<"/", "f", "/", "a", "%", "2", "F", "b">>) }

RawRequest(path, rawPath) ==
  [method |-> "GET", host |-> << >>, path |-> path, rawPath |-> rawPath]

\* Requests as net/http builds them (RawPath empty, or an encoding of Path that
\* is not the default one) and as a caller may have rewritten them.
RawRequests ==
  { RawRequest(<<"/", "f", "/", "a", "/", "b">>, <<"/", "f", "/", "a", "%", "2", "F", "b">>),
    RawRequest(<<"/", "F", "/", "a", "/", "b">>, <<"/", "F", "/", "a", "%", "2", "F", "b">>),
    RawRequest(<<"/", "f", "/", "a", "/", "b">>, << >>),
    RawRequest(<<"/", "a", "/", "b">>, <<"/", "a", "/", "b">>),
    RawRequest(<<"/", "a", "/", "/", "b">>, <<"/", "a", "/", "/", "b">>),
    RawRequest(<<"/", "a", "/", "/", "b">>, << >>),
    RawRequest(<<"/", "f", "/", "x">>, <<"/", "f", "/", "a", "%", "2", "F", "b">>),
    RawRequest(<<"/", "f", "/", "%", "2">>, <<"/", "f", "/", "%", "2">>),
    RawRequest(<<"/", "f", "/", "a", " ", "b">>, <<"/", "f", "/", "a", " ", "b">>),
    RawRequest(<<"/", "f", "/", "a", " ", "b">>, <<"/", "f", "/", "a", "%", "2", "0", "b">>) }

\* NewRouter with UseRawPath, IgnoreCase and StrictSlash set or cleared.
RawInit ==
  /\ \E raw \in BOOLEAN, ic \in BOOLEAN, ss \in BOOLEAN :
       router = [NewRouter(ic, ss, FALSE) EXCEPT !.UseRawPath = raw]
  /\ frozen = NoFrozen
  /\ routes = {}
  /\ op = "none"
  /\ lastErr = ""

\* Bound of the wildcard model: routes registered in one behaviour.
MaxWildRoutes == 3

\* The registrations of the wildcard model: wildcard routes under a literal
\* prefix, under the root and under a parameter, next to routes for the
\* prefix itself and below it.
WildRegistrations ==
  { Reg(<< >>, "GET", <<"/", "s", "/", "*", "w">>),
    Reg(<< >>, "GET", <<"/", "s">>),
    Reg(<< >>, "GET", <<"/", "s", "/">>),
    Reg(<< >>, "GET", <<"/", "s", "/", ":", "i">>),
    Reg(<< >>, "GET", <<"/", "*", "w">>),
    Reg(<< >>, "GET", <<"/", ":", "i">>),
    Reg(<< >>, "GET", <<"/", ":", "i", "/", "*", "w">>),
    Reg(<< >>, "POST", <<"/", "s">>) }

WildPaths ==
  { <<"/">>, <<"/", "s">>, <<"/", "s", "/">>, <<"/", "s", "/", "a">>,
    <<"/", "s", "/", "a", "/">>, <<"/", "s", "/", "a", "/", "b">>,
    <<"/", "S", "/", "A">>, <<"/", "a">>, <<"/", "a", "/", "b">> }

WildRequests == [method : {"GET"}, path : WildPaths, host : {<< >>}]

\* NewRouter with IgnoreCase and StrictSlash set or cleared.
WildInit ==
  /\ \E ic \in BOOLEAN, ss \in BOOLEAN : router = NewRouter(ic, ss, FALSE)
  /\ frozen = NoFrozen
  /\ routes = {}
  /\ op = "none"
  /\ lastErr = ""

\* Bound of the depth model: routes registered in one behaviour.
MaxDepthRoutes == 3

\* n segments "a": /a/a/.../a
Deep(n) == [k \in 1..(2 * n) |-> IF k % 2 = 1 THEN "/" ELSE "a"]

\* The registrations of the depth model: literal patterns of MaxDepth
\* segments under POST, short parameter and wildcard patterns under GET, and
\* patterns of MaxDepth + 1 segments that end in a literal, a parameter and
\* a wildcard.
DepthRegistrations ==
  { Reg(<< >>, "POST", Deep(MaxDepth)),
    Reg(<< >>, "POST", Deep(MaxDepth) \o <<"/">>),
    Reg(<< >>, "GET", <<"/", "a", "/", "*", "w">>),
    Reg(<< >>, "GET", <<"/", "*", "w">>),
    Reg(<< >>, "GET", <<"/", "a", "/", ":", "i">>),
    Reg(<< >>, "GET", Deep(MaxDepth + 1)),
    Reg(<< >>, "POST", Deep(MaxDepth + 1)),
    Reg(<< >>, "GET", Deep(MaxDepth) \o <<"/", "*", "w">>),
    Reg(<< >>, "GET", Deep(MaxDepth) \o <<"/", ":", "i">>) }

DepthPaths ==
  { Deep(MaxDepth), Deep(MaxDepth) \o <<"/">>, Deep(MaxDepth - 1) \o <<"/", "b">>,
    Deep(MaxDepth + 1), Deep(MaxDepth + 1) \o <<"/">>, Deep(MaxDepth) \o <<"/", "b">>,
    Deep(MaxDepth + 2), <<"/", "a", "/", "b">> }

DepthRequests == [method : {"GET", "POST"}, path : DepthPaths, host : {<< >>}]

\* NewRouter with StrictSlash set or cleared.
DepthInit ==
  /\ \E ss \in BOOLEAN : router = NewRouter(FALSE, ss, FALSE)
  /\ frozen = NoFrozen
  /\ routes = {}
  /\ op = "none"
  /\ lastErr = ""

\* Bound of the snapshot model: routes registered in one behaviour.
MaxSnapRoutes == 3

\* The registrations of the snapshot model: static routes that form a chain,
\* parameter and wildcard routes, a second method, a route of host "h", and
\* registrations that fail (a duplicate form, a parameter conflict).
SnapRegistrations ==
  { Reg(<< >>, "GET", <<"/", "a">>), Reg(<< >>, "GET", <<"/", "a", "/">>),
    Reg(<< >>, "GET", <<"/", "a", "/", "b">>),
    Reg(<< >>, "GET", <<"/", "a", "/", ":", "i">>),
    Reg(<< >>, "GET", <<"/", "a", "/", ":", "j">>),
    Reg(<< >>, "GET", <<"/", "*", "w">>),
    Reg(<< >>, "POST", <<"/", "a">>),
    Reg(<<"h">>, "GET", <<"/", "a">>) }

SnapPaths ==
  { <<"/", "a">>, <<"/", "a", "/">>, <<"/", "a", "/", "b">>, <<"/", "a", "/", "x">>,
    <<"/", "x">> }

SnapRequests ==
  [method : {"GET", "HEAD", "POST", "OPTIONS"}, path : SnapPaths,
   host : {<< >>, <<"h">>}]

\* NewRouter with StrictSlash set or cleared.
SnapInit ==
  /\ \E ss \in BOOLEAN : router = NewRouter(FALSE, ss, FALSE)
  /\ frozen = NoFrozen
  /\ routes = {}
  /\ op = "none"
  /\ lastErr = ""

(***************************************************************************)
(* router/router.go: the traffic of r.partsPool, r.paramPool and r.rwPool. *)
(* For each function the pool calls it makes and the uses of what it took, *)
(* in the order of the code.                                               *)
(***************************************************************************)

PoolNames == {"parts", "params", "rw"}

PoolGet(pool) == [op |-> "Get", pool |-> pool]
PoolPut(pool) == [op |-> "Put", pool |-> pool]
PoolUse(pool) == [op |-> "Use", pool |-> pool]

\* getPartsWithRaw: partsPool.Get, the record is filled, and on a NUL, CR or
\* LF byte it is put back before nil is returned.
\* ok is its second result.
getPartsPools(ok) ==
  IF ok THEN <<PoolGet("parts"), PoolUse("parts")>>
  ELSE <<PoolGet("parts"), PoolUse("parts"), PoolPut("parts")>>

\* The first Put of serveMethodInTable after the handler left out.
PutsAfterHandlerButParts(hasParams) ==
  IF hasParams THEN <<PoolUse("rw"), PoolPut("rw"), PoolPut("params")>> ELSE << >>

\* serveMethodInTable after handler(w, req) returned: resetParamRW(prw),
\* rwPool.Put(prw), paramPool.Put(params), partsPool.Put(segs).
PutsAfterHandler(hasParams) ==
  IF hasParams THEN <<PoolUse("rw"), PoolPut("rw"), PoolPut("params"), PoolPut("parts")>>
  ELSE <<PoolPut("parts")>>

\* A return of serveMethodInTable: its result and its pool calls, `before` up
\* to the call of the handler or the return, `after` once the handler has
\* returned.
Lookup(res, before, after) ==
  [ok |-> res.ok, resp |-> res.resp, before |-> before, after |-> after]

\* Router.serveMethodInTable with its pool calls.
serveMethodInTablePools(method, matchPath, rawPath, table) ==
  LET hasParams == method \in DOMAIN table.hasParams /\ table.hasParams[method]
      segs == getPartsWithRaw(matchPath, rawPath)
      root == table.roots[method]
      found == search(root, segs, 0, << >>, FALSE).node
      got == getPartsPools(segs.ok)
  IN  IF method \in DOMAIN table.static /\ matchPath \in DOMAIN table.static[method]
        THEN Lookup(Served(Handled(table.static[method][matchPath], << >>)),
                    << >>, << >>)
      ELSE IF ~hasParams THEN Lookup(NotServed, << >>, << >>)
      ELSE IF ~segs.ok THEN Lookup(NotServed, got, << >>)
      ELSE IF tooDeep(segs) THEN Lookup(NotServed, Append(got, PoolPut("parts")), << >>)
      ELSE IF method \notin DOMAIN table.roots
        THEN Lookup(NotServed, Append(got, PoolPut("parts")), << >>)
      ELSE IF found # NilNode /\ found.handler # NoHandler
        THEN IF ~found.hasParams
               THEN Lookup(Served(Handled(found.handler, << >>)),
                           Append(got, PoolUse("parts")), PutsAfterHandler(FALSE))
               ELSE Lookup(Served(Handled(found.handler,
                                          search(root, segs, 0, << >>, TRUE).params)),
                           got \o <<PoolUse("parts"), PoolGet("params"),
                                    PoolUse("params"), PoolUse("parts"),
                                    PoolUse("params"), PoolGet("rw"), PoolUse("rw")>>,
                           PutsAfterHandler(TRUE))
      ELSE Lookup(NotServed, got \o <<PoolUse("parts"), PoolPut("parts")>>, << >>)

\* Router.allowedMethodsInTable: segs is taken for the first method with
\* parameter routes and put back after the range, or at once when the path is
\* too deep.
allowedMethodsInTablePools(matchPath, table) ==
  LET withParams == {m \in DOMAIN table.hasParams :
                       table.hasParams[m] /\ m \in DOMAIN table.roots}
      segs == getParts(matchPath)
      got == getPartsPools(segs.ok)
  IN  IF ~table.anyParams THEN << >>
      ELSE IF withParams = {} THEN << >>
      ELSE IF ~segs.ok THEN got
      ELSE IF Len(segs.parts) > MaxDepth THEN Append(got, PoolPut("parts"))
      ELSE got \o <<PoolUse("parts"), PoolPut("parts")>>

\* handle up to lockIgnoreCase: getParts after the first four checks, Put on
\* each return that follows it.  err is the error of the checks.
handleChecksPools(err) ==
  IF err \in {"nil handler", "unsupported method", "non-canonical pattern",
              "pattern too long"}
    THEN << >>
  ELSE IF err = "invalid pattern" THEN getPartsPools(FALSE)
  ELSE IF err = "route too deep" THEN Append(getPartsPools(TRUE), PoolPut("parts"))
  ELSE IF err # "" THEN getPartsPools(TRUE) \o <<PoolUse("parts"), PoolPut("parts")>>
  ELSE Append(getPartsPools(TRUE), PoolUse("parts"))

\* handle from lockIgnoreCase on: segs.parts is read up to the insert, and
\* every return puts segs back.
handleReturnPools == <<PoolUse("parts"), PoolPut("parts")>>

(***************************************************************************)
(* router/router.go: ServeHTTP and Handle as goroutines.  r.mu is a        *)
(* sync.RWMutex: a writer that called Lock waits for the readers to leave  *)
(* and keeps new readers out meanwhile.  Goroutine "d" serves requests,    *)
(* goroutine "w" registers routes; a handler may call Handle itself.  What *)
(* a goroutine does between RLock/Lock and the unlock is one step: the     *)
(* lock keeps the writes of the other goroutine out of it.                 *)
(***************************************************************************)

VARIABLES
  mu,      \* r.mu: read locks held per goroutine, the writer inside, the writer waiting
  disp,    \* the frame of ServeHTTP on goroutine "d"
  hnd,     \* the frame of handle on each goroutine
  chist    \* history: counts of calls, and what the locking rules forbid

ccVars == <<mu, disp, hnd, chist>>

Goroutines == {"d", "w"}

NoGoroutine == "none"

NoRequest == [method |-> "", path |-> << >>, host |-> << >>]

IdleDisp ==
  [pc |-> "idle", sec |-> "", req |-> NoRequest, ctx |-> Responded(NoResponse),
   tables |-> << >>, ti |-> 0, cur |-> "", alt |-> FALSE, kind |-> "",
   resp |-> NoResponse, seen |-> {}, nested |-> FALSE, panicked |-> FALSE,
   trace |-> << >>, after |-> << >>]

IdleHandle == [pc |-> "idle", reg |-> Reg(<< >>, "", << >>), err |-> "", trace |-> << >>]

NoHistory ==
  [dispatches |-> 0, registrations |-> 0, unlockedRead |-> FALSE,
   coincided |-> FALSE, calledHolding |-> FALSE, reentered |-> FALSE,
   unlockedWrite |-> FALSE]

FreeMutex ==
  [readers |-> [g \in Goroutines |-> 0], writer |-> NoGoroutine,
   pending |-> NoGoroutine]

CCIdle ==
  /\ mu = FreeMutex
  /\ disp = IdleDisp
  /\ hnd = [g \in Goroutines |-> IdleHandle]
  /\ chist = NoHistory

\* RLock returns at once unless a writer is inside or waiting.
CanRLock == mu.writer = NoGoroutine /\ mu.pending = NoGoroutine

\* Lock: one writer at a time gets past the writers' mutex.
CanAnnounce == mu.writer = NoGoroutine /\ mu.pending = NoGoroutine

\* The writer that announced itself gets the lock when no reader is inside.
CanAcquire(g) == mu.pending = g /\ \A q \in Goroutines : mu.readers[q] = 0

RLocked(g) == [mu EXCEPT !.readers[g] = @ + 1]
RUnlocked(g) == [mu EXCEPT !.readers[g] = @ - 1]
Announced(g) == [mu EXCEPT !.pending = g]
Acquired(g) == [mu EXCEPT !.pending = NoGoroutine, !.writer = g]
Unlocked == [mu EXCEPT !.writer = NoGoroutine]

\* Goroutine g holds r.mu, for reading or for writing.
Holding(g) == mu.readers[g] > 0 \/ mu.writer = g

(***************************************************************************)
(* handle                                                                  *)
(***************************************************************************)

\* handle up to lockIgnoreCase: the checks made before any lock is taken.
handleChecks(reg) ==
  LET cleaned == cleanPath(reg.pattern)
      segs == getParts(cleaned)
  IN  IF HandlerOf(reg) = NoHandler THEN "nil handler"
      ELSE IF ~isValidMethod(reg.method) THEN "unsupported method"
      ELSE IF cleaned # reg.pattern THEN "non-canonical pattern"
      ELSE IF Len(cleaned) > MaxPathLength THEN "pattern too long"
      ELSE IF ~segs.ok THEN "invalid pattern"
      ELSE IF Len(segs.parts) > MaxDepth THEN "route too deep"
      ELSE validateParamNames(segs.parts)

\* The router is written: a ServeHTTP in progress has now run against it too.
Seen(r) == IF disp.pc = "idle" THEN disp ELSE [disp EXCEPT !.seen = @ \cup {r}]

\* Handle is called on goroutine g: by the application on "w", by the running
\* handler on "d".  The checks pass or it returns; then lockIgnoreCase calls
\* r.mu.Lock().
HandleCall(g, reg, maxRegistrations) ==
  /\ hnd[g].pc = "idle"
  /\ chist.registrations < maxRegistrations
  /\ IF g = "d" THEN disp.pc = "handler" /\ ~disp.nested /\ ~disp.panicked
                ELSE TRUE
  /\ chist' = [chist EXCEPT !.registrations = @ + 1]
  /\ disp' = IF g = "d" THEN [disp EXCEPT !.nested = TRUE] ELSE disp
  /\ \E err \in {handleChecks(reg)} :
       hnd' = [hnd EXCEPT ![g] =
                 [pc |-> IF err # "" THEN "idle" ELSE "icLock", reg |-> reg,
                  err |-> err, trace |-> handleChecksPools(err)]]
  /\ UNCHANGED <<mu, router, frozen, routes, op, lastErr>>

\* r.mu.Lock() gets past the other writers and keeps new readers out.
HandleAnnounce(g) ==
  /\ hnd[g].pc \in {"icLock", "tblLock"}
  /\ CanAnnounce
  /\ mu' = Announced(g)
  /\ hnd' = [hnd EXCEPT ![g].pc = IF hnd[g].pc = "icLock" THEN "icWait" ELSE "tblWait"]
  /\ chist' = [chist EXCEPT !.reentered = @ \/ Holding(g)]
  /\ UNCHANGED <<disp, router, frozen, routes, op, lastErr>>

\* r.mu.Lock() returns: the readers have left.
HandleAcquire(g) ==
  /\ hnd[g].pc \in {"icWait", "tblWait"}
  /\ CanAcquire(g)
  /\ mu' = Acquired(g)
  /\ hnd' = [hnd EXCEPT ![g].pc = IF hnd[g].pc = "icWait" THEN "ic" ELSE "tbl"]
  /\ UNCHANGED <<disp, chist, router, frozen, routes, op, lastErr>>

\* lockIgnoreCase under the lock, r.mu.Unlock(); then hasParams, the group's
\* middlewares, and r.mu.RLock() for r.middlewares.
HandleIgnoreCase(g) ==
  /\ hnd[g].pc = "ic"
  /\ \E latched \in {lockIgnoreCase(router)} :
       router' = latched /\ disp' = Seen(latched)
  /\ mu' = Unlocked
  /\ chist' = [chist EXCEPT !.unlockedWrite = @ \/ mu.writer # g]
  /\ hnd' = [hnd EXCEPT ![g].pc = "mwRLock"]
  /\ UNCHANGED <<frozen, routes, op, lastErr>>

\* r.mu.RLock() before the copy of r.middlewares.
HandleRLock(g) ==
  /\ hnd[g].pc = "mwRLock"
  /\ CanRLock
  /\ mu' = RLocked(g)
  /\ chist' = [chist EXCEPT !.reentered = @ \/ Holding(g)]
  /\ hnd' = [hnd EXCEPT ![g].pc = "mw"]
  /\ UNCHANGED <<disp, router, frozen, routes, op, lastErr>>

\* copy(routerMws, r.middlewares); r.mu.RUnlock(); the middlewares are applied
\* and r.mu.Lock() is called.
HandleMiddlewares(g) ==
  /\ hnd[g].pc = "mw"
  /\ mu' = RUnlocked(g)
  /\ hnd' = [hnd EXCEPT ![g].pc = "tblLock"]
  /\ UNCHANGED <<disp, chist, router, frozen, routes, op, lastErr>>

\* The table is changed under the lock (router.go:448-476), r.mu.Unlock(),
\* and handle returns.  No Use runs in this model, so the middlewares copied
\* are those of the router.
HandleMutate(g) ==
  /\ hnd[g].pc = "tbl"
  /\ \E reg \in {hnd[g].reg} :
     \E res \in {handle(router, reg.host, reg.method, reg.pattern, HandlerOf(reg),
                         reg.groupMws)} :
         /\ router' = res.router
         /\ disp' = Seen(res.router)
         /\ lastErr' = res.err
         /\ routes' = IF res.err = ""
                        THEN routes \cup {[host |-> normalizeHost(reg.host),
                                           method |-> reg.method,
                                           pattern |-> reg.pattern]}
                        ELSE routes
         /\ hnd' = [hnd EXCEPT ![g] = [pc |-> "idle", reg |-> reg, err |-> res.err,
                                       trace |-> hnd[g].trace \o handleReturnPools]]
  /\ mu' = Unlocked
  /\ chist' = [chist EXCEPT !.unlockedWrite = @ \/ mu.writer # g]
  /\ op' = "Handle"
  /\ UNCHANGED frozen

HandleStep(g) ==
  \/ HandleAnnounce(g)
  \/ HandleAcquire(g)
  \/ HandleIgnoreCase(g)
  \/ HandleRLock(g)
  \/ HandleMiddlewares(g)
  \/ HandleMutate(g)

(***************************************************************************)
(* ServeHTTP                                                               *)
(***************************************************************************)

\* The table ServeHTTP is working on: the host's table or &r.table.
CurrentTable == TableOf(router, disp.tables[disp.ti])

\* The match path and the parameter path of the lookup: those of the request,
\* or the alternate ones of tryAlternateSlashInTable.
LookupMatch == IF disp.alt THEN alternatePath(disp.ctx.matchPath).path ELSE disp.ctx.matchPath
LookupParam == IF disp.alt THEN alternatePath(disp.ctx.paramPath).path ELSE disp.ctx.paramPath

\* ServeHTTP returns with the response written.
Finished(resp) ==
  [disp EXCEPT !.pc = "idle", !.sec = "", !.resp = resp, !.kind = ""]

\* ServeHTTP calls f outside the table code: a route handler, NotFound,
\* MethodNotAllowed or PanicHandler.
Calling(kind, resp) ==
  [disp EXCEPT !.pc = "handler", !.sec = "", !.kind = kind, !.resp = resp]

\* The next section that takes the read lock.
Entering(sec) == [disp EXCEPT !.pc = "rlock", !.sec = sec]

\* The frame after the pool calls of the section just run.
Traced(frame, events) == [frame EXCEPT !.trace = @ \o events]

\* respondMethodNotAllowed
MethodNotAllowedStep(allow) ==
  IF disp.req.method # "OPTIONS" /\ router.MethodNotAllowed
    THEN Calling("MethodNotAllowed",
                 respondMethodNotAllowed(disp.req, allow, router.MethodNotAllowed))
    ELSE Finished(respondMethodNotAllowed(disp.req, allow, router.MethodNotAllowed))

\* The table gave no answer: the default table after the host's table, then
\* NotFound.
NextTable ==
  IF disp.ti < Len(disp.tables)
    THEN [disp EXCEPT !.pc = "rlock", !.sec = "serve", !.ti = @ + 1, !.alt = FALSE,
                      !.cur = disp.ctx.method]
  ELSE IF router.NotFound THEN Calling("NotFound", respondNotFound(router.NotFound))
  ELSE Finished(respondNotFound(router.NotFound))

\* The application calls r.ServeHTTP(w, req): the recover is deferred and
\* ignoreCaseActive calls r.mu.RLock().
ServeCall(req, maxDispatches) ==
  /\ disp.pc = "idle"
  /\ chist.dispatches < maxDispatches
  /\ disp' = [IdleDisp EXCEPT !.pc = "rlock", !.sec = "ignoreCase", !.req = req,
                              !.seen = {router}]
  /\ chist' = [chist EXCEPT !.dispatches = @ + 1]
  /\ UNCHANGED <<mu, hnd, router, frozen, routes, op, lastErr>>

\* r.mu.RLock() returns.
ServeRLock ==
  /\ disp.pc = "rlock"
  /\ CanRLock
  /\ mu' = RLocked("d")
  /\ disp' = [disp EXCEPT !.pc = "body"]
  /\ chist' = [chist EXCEPT !.reentered = @ \/ Holding("d")]
  /\ UNCHANGED <<hnd, router, frozen, routes, op, lastErr>>

\* ignoreCaseActive, then prepareRouteContext.
ServeIgnoreCase ==
  /\ disp.pc = "body" /\ disp.sec = "ignoreCase"
  /\ \E ctx \in {prepareRouteContext(disp.req, router.UseRawPath,
                                       ignoreCaseActive(router))} :
         disp' = IF ctx.ok THEN [Entering("hosts") EXCEPT !.ctx = ctx]
                 ELSE Finished(ctx.resp)
  /\ mu' = RUnlocked("d")
  /\ UNCHANGED <<hnd, chist, router, frozen, routes, op, lastErr>>

\* The lookup in r.hosts under the read lock (router.go:558-570).
ServeHosts ==
  /\ disp.pc = "body" /\ disp.sec = "hosts"
  /\ LET host == normalizeHost(disp.req.host)
         hasHost == host # << >> /\ host \in DOMAIN router.hosts
     IN  disp' = [Entering("serve") EXCEPT
                    !.tables = IF hasHost THEN <<host, << >> >> ELSE << << >> >>,
                    !.ti = 1, !.alt = FALSE, !.cur = disp.ctx.method]
  /\ mu' = RUnlocked("d")
  /\ UNCHANGED <<hnd, chist, router, frozen, routes, op, lastErr>>

\* The handler called with the read lock still held, released by a deferred
\* RUnlock.
UnlocksAfterHandler == FALSE

\* The handler is called after r.mu.RUnlock() (router.go:659, 694, 703).
UnlocksBeforeHandler == TRUE

\* serveMethodInTable for the method at hand; serveInTable tries GET after
\* HEAD; a miss leads to tryAlternateSlashInTable, a miss of the alternate
\* path to handleMethodNotAllowedInTable.
ServeMethod ==
  /\ disp.pc = "body" /\ disp.sec = "serve"
  /\ \E res \in {serveMethodInTablePools(disp.cur, LookupMatch, LookupParam,
                                          CurrentTable)} :
         /\ disp' = [IF res.ok THEN Calling("route", res.resp)
                      ELSE IF disp.ctx.method = "HEAD" /\ disp.cur = "HEAD"
                        THEN [Entering("serve") EXCEPT !.cur = "GET"]
                      ELSE IF disp.alt THEN [Entering("allowHere") EXCEPT !.alt = FALSE]
                      ELSE [disp EXCEPT !.pc = "flag", !.sec = "slashFlag"]
                     EXCEPT !.trace = @ \o res.before, !.after = res.after]
         /\ mu' = IF res.ok /\ ~UnlocksBeforeHandler THEN mu ELSE RUnlocked("d")
  /\ UNCHANGED <<hnd, chist, router, frozen, routes, op, lastErr>>

\* The test `len(p) > 1 && p[len(p)-1] != '/' && !table.hasTrailing` reads
\* table.hasTrailing when its first two operands hold.
ReadsHasTrailing(matchPath) == Len(matchPath) > 1 /\ matchPath[Len(matchPath)] # "/"

\* The fast skip is evaluated with r.mu not held (router.go:606, 633); a
\* write of hasTrailing going on at the same time is a data race, and the
\* read gives the value before or after it.
FlagRead ==
  [chist EXCEPT
     !.unlockedRead = @ \/ (ReadsHasTrailing(disp.ctx.matchPath) /\ ~Holding("d")),
     !.coincided = @ \/ (ReadsHasTrailing(disp.ctx.matchPath)
                          /\ mu.writer \notin {NoGoroutine, "d"})]

\* tryAlternateSlashInTable up to its first locked lookup.
ServeSlashFlag ==
  /\ disp.pc = "flag" /\ disp.sec = "slashFlag"
  /\ LET altMatch == alternatePath(disp.ctx.matchPath)
     IN  disp' = IF NoTrailingToTry(disp.ctx.matchPath, CurrentTable)
                   THEN Entering("allowHere")
                 ELSE IF ~altMatch.ok \/ altMatch.path = disp.ctx.matchPath
                   THEN Entering("allowHere")
                 ELSE IF router.StrictSlash THEN Entering("slashAllow")
                 ELSE [Entering("serve") EXCEPT !.alt = TRUE, !.cur = disp.ctx.method]
  /\ chist' = FlagRead
  /\ UNCHANGED <<mu, hnd, router, frozen, routes, op, lastErr>>

\* tryAlternateSlashInTable with StrictSlash, after
\* allowedMethodsInTable(altMatch): the redirect.
AfterSlashAllow(found) ==
  LET altRedirect == alternatePath(disp.ctx.paramPath)
  IN  IF found.ok /\ altRedirect.ok /\ altRedirect.path # << >>
        THEN Finished(redirectToPath(disp.req, altRedirect.path))
        ELSE Entering("allowHere")

\* handleMethodNotAllowedInTable after allowedMethodsInTable(ctx.matchPath).
AfterAllowHere(found) ==
  IF found.ok THEN MethodNotAllowedStep(found.allow)
  ELSE IF router.StrictSlash THEN NextTable
  ELSE [disp EXCEPT !.pc = "flag", !.sec = "allowFlag"]

\* handleMethodNotAllowedInTable after allowedMethodsInTable(altMatch).
AfterAllowThere(found) ==
  IF found.ok THEN MethodNotAllowedStep(found.allow) ELSE NextTable

\* The path allowedMethodsInTable is called with in the section at hand.
AllowPath ==
  IF disp.sec = "allowHere" THEN disp.ctx.matchPath
  ELSE alternatePath(disp.ctx.matchPath).path

\* allowedMethodsInTable, from its RLock to its RUnlock, and what its caller
\* does with the result up to the next lock or call.
ServeAllowed ==
  /\ disp.pc = "body" /\ disp.sec \in {"slashAllow", "allowHere", "allowThere"}
  /\ \E found \in {allowedMethodsInTable(AllowPath, CurrentTable)} :
       disp' = Traced(CASE disp.sec = "slashAllow" -> AfterSlashAllow(found)
                        [] disp.sec = "allowHere" -> AfterAllowHere(found)
                        [] OTHER -> AfterAllowThere(found),
                      allowedMethodsInTablePools(AllowPath, CurrentTable))
  /\ mu' = RUnlocked("d")
  /\ UNCHANGED <<hnd, chist, router, frozen, routes, op, lastErr>>

\* handleMethodNotAllowedInTable without StrictSlash: the fast skip again.
ServeAllowFlag ==
  /\ disp.pc = "flag" /\ disp.sec = "allowFlag"
  /\ disp' = IF NoTrailingToTry(disp.ctx.matchPath, CurrentTable) THEN NextTable
             ELSE IF alternatePath(disp.ctx.matchPath).ok THEN Entering("allowThere")
             ELSE NextTable
  /\ chist' = FlagRead
  /\ UNCHANGED <<mu, hnd, router, frozen, routes, op, lastErr>>

\* The function called returns: after a route handler serveMethodInTable puts
\* back what it took; ServeHTTP returns.
HandlerReturns ==
  /\ disp.pc = "handler"
  /\ hnd["d"].pc = "idle"
  /\ disp' = IF disp.kind = "route"
               THEN [Traced(Finished(disp.resp), disp.after) EXCEPT !.after = << >>]
               ELSE Finished(disp.resp)
  /\ mu' = IF disp.kind = "route" /\ ~UnlocksBeforeHandler THEN RUnlocked("d") ELSE mu
  /\ chist' = [chist EXCEPT !.calledHolding = @ \/ Holding("d")]
  /\ UNCHANGED <<hnd, router, frozen, routes, op, lastErr>>

\* The function called panics: the recover deferred by ServeHTTP calls
\* PanicHandler when there is one, otherwise the panic leaves ServeHTTP.
HandlerPanics ==
  /\ disp.pc = "handler"
  /\ hnd["d"].pc = "idle"
  /\ disp.kind # "PanicHandler"
  /\ disp' = IF router.PanicHandler
               THEN [Calling("PanicHandler",
                             Response(0, "PanicHandler", NoHandler, << >>, NoHeader, NoHeader))
                     EXCEPT !.panicked = TRUE]
               ELSE [Finished(Response(0, "panic", NoHandler, << >>, NoHeader, NoHeader))
                     EXCEPT !.panicked = TRUE]
  /\ chist' = [chist EXCEPT !.calledHolding = @ \/ Holding("d")]
  /\ UNCHANGED <<mu, hnd, router, frozen, routes, op, lastErr>>

ServeStep ==
  \/ ServeRLock
  \/ ServeIgnoreCase
  \/ ServeHosts
  \/ ServeMethod
  \/ ServeSlashFlag
  \/ ServeAllowed
  \/ ServeAllowFlag
  \/ HandlerReturns
  \/ HandlerPanics

\* Bounds of the concurrent model: Handle calls and ServeHTTP calls made in
\* one behaviour.
MaxConcRegistrations == 2
MaxConcDispatches == 1

\* The registrations of the concurrent model: the two slash forms of a static
\* route, a parameter route of another method, and two patterns that handle
\* rejects after getParts (a repeated parameter name, a line feed).
ConcRegistrations ==
  { Reg(<< >>, "GET", <<"/", "a">>), Reg(<< >>, "GET", <<"/", "a", "/">>),
    Reg(<< >>, "POST", <<"/", ":", "i">>),
    Reg(<< >>, "POST", <<"/", ":", "i", "/", ":", "i">>),
    Reg(<< >>, "POST", <<"/", "\n">>) }

\* The requests: both methods on both slash forms, and a path with a line
\* feed, which getParts rejects.
ConcRequests ==
  [method : {"GET", "POST"}, path : {<<"/", "a">>, <<"/", "a", "/">>},
   host : {<< >>}]
  \cup {[method |-> "POST", path |-> <<"/", "\n">>, host |-> << >>]}

\* NewRouter with StrictSlash, the NotFound and MethodNotAllowed overrides and
\* PanicHandler set or not before the goroutines start.
ConcInit ==
  /\ \E ss \in BOOLEAN, ov \in BOOLEAN, ph \in BOOLEAN :
       router = [NewRouter(FALSE, ss, ov) EXCEPT !.NotFound = ov, !.PanicHandler = ph]
  /\ frozen = NoFrozen
  /\ routes = {}
  /\ op = "none"
  /\ lastErr = ""
  /\ mu = FreeMutex
  /\ disp = IdleDisp
  /\ hnd = [g \in Goroutines |-> IdleHandle]
  /\ chist = NoHistory
(***************************************************************************)
(* The router with parameter and wildcard routes that share prefixes:     *)
(* registrations that conflict with one another, registrations that       *)
(* validateParamNames rejects, and lookups that backtrack.                 *)
(***************************************************************************)

\* Bound of the trie model: routes registered in one behaviour.
MaxTrieRoutes == 3

TrieRegistrations ==
  { Reg(<< >>, "GET", <<"/", ":", "i", "/", "a">>),
    Reg(<< >>, "GET", <<"/", ":", "j", "/", "b">>),
    Reg(<< >>, "GET", <<"/", ":", "i", "/", ":", "i">>),
    Reg(<< >>, "GET", <<"/", ":", "i", "/", "*", "i">>),
    Reg(<< >>, "GET", <<"/", "*", "w", "/", "a">>),
    Reg(<< >>, "GET", <<"/", "*", "w">>),
    Reg(<< >>, "GET", <<"/", "s", "/", ":", "i", "/", "x">>),
    Reg(<< >>, "GET", <<"/", "s", "/", "*", "w">>),
    Reg(<< >>, "GET", <<"/", "a", "/", "c">>),
    Reg(<< >>, "GET", <<"/", ":", "i", "/", ":", "k", "/", "c">>),
    Reg(<< >>, "POST", <<"/", "a", "/", "c">>),
    Reg(<< >>, "GET", <<"/", "a", "/", "c", "/">>) }

TriePaths ==
  { <<"/", "x", "/", "a">>, <<"/", "a", "/", "a">>, <<"/", "x", "/", "b">>,
    <<"/", "a", "/", "c">>, <<"/", "a", "/", "c", "/">>,
    <<"/", "x", "/", "a", "/", "c">>, <<"/", "s", "/", "a", "/", "x">>,
    <<"/", "s", "/", "a", "/", "y">>, <<"/", "s">>, <<"/">> }

TrieRequests == [method : {"GET", "POST"}, path : TriePaths, host : {<< >>}]

\* NewRouter with StrictSlash and the MethodNotAllowed handler set or not.
TrieInit ==
  /\ \E ss \in BOOLEAN, mna \in BOOLEAN : router = NewRouter(FALSE, ss, mna)
  /\ frozen = NoFrozen
  /\ routes = {}
  /\ op = "none"
  /\ lastErr = ""
(***************************************************************************)
(*                          SPECIFICATIONS                                 *)
(***************************************************************************)

vars == <<rbVars, rtVars, alVars, fzVars, ccVars>>

\* The router while the ring buffer runs: constructed, nothing registered.
RTIdle ==
  /\ router = NewRouter(FALSE, TRUE, FALSE)
  /\ frozen = NoFrozen
  /\ routes = {}
  /\ op = "none"
  /\ lastErr = ""

\* The ring buffer while the router runs: constructed with capacity 1, unused.
RBIdle ==
  /\ head = 0 /\ tail = 0 /\ mask = 0
  /\ data = [k \in 0..0 |-> NoEvent]
  /\ state = [k \in 0..0 |-> slotEmpty]
  /\ closed = 0
  /\ PanicHandlerSet = FALSE
  /\ prod = [p \in Producers |-> IdleProd]
  /\ cons = IdleCons
  /\ calls = 0 /\ nStarted = 0
  /\ results = << >> /\ startedClosed = << >> /\ reserved = << >>
  /\ batches = << >>
  /\ panics = 0 /\ handled = 0
  /\ lateCall = FALSE /\ consumed = FALSE /\ sawFull = {}

Init == RBInit /\ RTIdle /\ ALIdle /\ FZIdle /\ CCIdle

RBClose == Close /\ UNCHANGED <<rtVars, alVars, fzVars, ccVars>>
RBTryWrite(p) == TryWrite(p) /\ UNCHANGED <<rtVars, alVars, fzVars, ccVars>>
RBTryWriteStep(p) == TryWriteStep(p) /\ UNCHANGED <<rtVars, alVars, fzVars, ccVars>>
RBConsume == Consume /\ UNCHANGED <<rtVars, alVars, fzVars, ccVars>>

Next ==
  \/ RBClose
  \/ \E p \in Producers : RBTryWrite(p)
  \/ RBConsume

\* The ring buffer with producers, one consumer and Close.
Spec == Init /\ [][Next]_vars

\* The same under the Go scheduler's fairness: a goroutine that stays runnable is
\* eventually run (Gosched and time.Sleep yield, they do not starve the others).
FairSpec ==
  /\ Init
  /\ [][Next]_vars
  /\ WF_vars(RBConsume)
  /\ \A p \in Producers : WF_vars(RBTryWriteStep(p))

\* The ring buffer with only the producers scheduled fairly: Consume may never
\* be started, or stop being scheduled at any point.
ProducerFairSpec ==
  /\ Init
  /\ [][Next]_vars
  /\ \A p \in Producers : WF_vars(RBTryWriteStep(p))

RouterInit == RTInit /\ RBIdle /\ ALIdle /\ FZIdle /\ CCIdle

RouterNext ==
  \/ \E mw \in Middlewares : Use(mw) /\ UNCHANGED <<rbVars, alVars, fzVars, ccVars>>
  \/ \E reg \in Registrations : Handle(reg) /\ UNCHANGED <<rbVars, alVars, fzVars, ccVars>>
  \/ FreezeRouter /\ UNCHANGED <<rbVars, alVars, fzVars, ccVars>>
  \/ ServeHTTP /\ UNCHANGED <<rbVars, alVars, fzVars, ccVars>>
  \/ FrozenRouterServeHTTP /\ UNCHANGED <<rbVars, alVars, fzVars, ccVars>>

\* The router: registration, Freeze and dispatch in any order.
RouterSpec == RouterInit /\ [][RouterNext]_vars

\* The router with standard and custom methods on few patterns.
AllowNext ==
  \/ \E reg \in AllowRegistrations :
       HandleUpTo(reg, MaxAllowRoutes) /\ UNCHANGED <<rbVars, alVars, fzVars, ccVars>>
  \/ ServeHTTP /\ UNCHANGED <<rbVars, alVars, fzVars, ccVars>>

AllowSpecInit == AllowInit /\ RBIdle /\ ALIdle /\ FZIdle /\ CCIdle

AllowSpec == AllowSpecInit /\ [][AllowNext]_vars

\* The router in front of requests with long and non-canonical paths.
CleanNext ==
  \/ \E reg \in CleanRegistrations :
       HandleUpTo(reg, MaxCleanRoutes) /\ UNCHANGED <<rbVars, alVars, fzVars, ccVars>>
  \/ ServeHTTP /\ UNCHANGED <<rbVars, alVars, fzVars, ccVars>>

CleanSpecInit == CleanInit /\ RBIdle /\ ALIdle /\ FZIdle /\ CCIdle

CleanSpec == CleanSpecInit /\ [][CleanNext]_vars

\* The router with routes in the default table and in host tables.
HostNext ==
  \/ \E reg \in HostRegistrations :
       HandleUpTo(reg, MaxHostRoutes) /\ UNCHANGED <<rbVars, alVars, fzVars, ccVars>>
  \/ ServeHTTP /\ UNCHANGED <<rbVars, alVars, fzVars, ccVars>>

HostSpecInit == HostInit /\ RBIdle /\ ALIdle /\ FZIdle /\ CCIdle

HostSpec == HostSpecInit /\ [][HostNext]_vars

\* The router with mixed-case patterns and request paths.
CaseNext ==
  \/ \E reg \in CaseRegistrations :
       HandleUpTo(reg, MaxCaseRoutes) /\ UNCHANGED <<rbVars, alVars, fzVars, ccVars>>
  \/ ServeHTTP /\ UNCHANGED <<rbVars, alVars, fzVars, ccVars>>

CaseSpecInit == CaseInit /\ RBIdle /\ ALIdle /\ FZIdle /\ CCIdle

CaseSpec == CaseSpecInit /\ [][CaseNext]_vars

\* The router whose IgnoreCase field is written between the calls.
LatchNext ==
  \/ \E v \in BOOLEAN : SetIgnoreCase(v) /\ UNCHANGED <<rbVars, alVars, fzVars, ccVars>>
  \/ \E reg \in LatchRegistrations :
       HandleUpTo(reg, MaxLatchRoutes) /\ UNCHANGED <<rbVars, alVars, fzVars, ccVars>>
  \/ ServeHTTP /\ UNCHANGED <<rbVars, alVars, fzVars, ccVars>>

LatchSpecInit == LatchInit /\ RBIdle /\ ALIdle /\ FZIdle /\ CCIdle

LatchSpec == LatchSpecInit /\ [][LatchNext]_vars

\* The router with middlewares and groups.
MwNext ==
  \/ \E mws \in UseArgs : RouterUse(mws, MaxUsed) /\ UNCHANGED <<rbVars, alVars, fzVars, ccVars>>
  \/ \E greg \in GroupRegistrations :
       GroupHandle(greg, MaxMwRoutes) /\ UNCHANGED <<rbVars, alVars, fzVars, ccVars>>
  \/ ServeHTTP /\ UNCHANGED <<rbVars, alVars, fzVars, ccVars>>

MwSpecInit == MwInit /\ RBIdle /\ ALIdle /\ FZIdle /\ CCIdle

MwSpec == MwSpecInit /\ [][MwNext]_vars

\* The router on which patterns are registered again.
DupNext ==
  \/ \E dreg \in DupRegistrations :
       DupHandle(dreg, MaxDupRoutes) /\ UNCHANGED <<rbVars, alVars, fzVars, ccVars>>
  \/ ServeHTTP /\ UNCHANGED <<rbVars, alVars, fzVars, ccVars>>

DupSpecInit == DupInit /\ RBIdle /\ ALIdle /\ FZIdle /\ CCIdle

DupSpec == DupSpecInit /\ [][DupNext]_vars

\* The router and its frozen copy with handlers that panic.
PanicNext ==
  \/ \E preg \in PanicRegistrations :
       PanicHandle(preg, MaxPanicRoutes) /\ UNCHANGED <<rbVars, alVars, fzVars, ccVars>>
  \/ FreezeRouter /\ UNCHANGED <<rbVars, alVars, fzVars, ccVars>>
  \/ ServeHTTP /\ UNCHANGED <<rbVars, alVars, fzVars, ccVars>>
  \/ FrozenRouterServeHTTP /\ UNCHANGED <<rbVars, alVars, fzVars, ccVars>>

PanicSpecInit == PanicInit /\ RBIdle /\ ALIdle /\ FZIdle /\ CCIdle

PanicSpec == PanicSpecInit /\ [][PanicNext]_vars


\* Requests through AccessLog while the buffer fills up or is closed; the
\* consumer has not been started.
AccessLogNext ==
  \/ \E r \in ALRequests : AccessLog(r) /\ UNCHANGED <<rtVars, fzVars, ccVars>>
  \/ Close /\ UNCHANGED <<rtVars, alVars, fzVars, ccVars>>

AccessLogSpecInit == RBInit /\ RTIdle /\ ALIdle /\ FZIdle /\ CCIdle

AccessLogSpec == AccessLogSpecInit /\ [][AccessLogNext]_vars

\* The router in front of requests that carry a RawPath.
RawNext ==
  \/ \E reg \in RawRegistrations :
       HandleUpTo(reg, MaxRawRoutes) /\ UNCHANGED <<rbVars, alVars, fzVars, ccVars>>
  \/ ServeHTTP /\ UNCHANGED <<rbVars, alVars, fzVars, ccVars>>

RawSpecInit == RawInit /\ RBIdle /\ ALIdle /\ FZIdle /\ CCIdle

RawSpec == RawSpecInit /\ [][RawNext]_vars

\* The parser on arbitrary paths.
FuzzNext ==
  \/ FuzzGetParts /\ UNCHANGED <<rbVars, rtVars, alVars, ccVars>>
  \/ FuzzGetPartsWithRaw /\ UNCHANGED <<rbVars, rtVars, alVars, ccVars>>

FuzzSpecInit == FuzzInit /\ RTIdle /\ RBIdle /\ ALIdle /\ CCIdle

FuzzSpec == FuzzSpecInit /\ [][FuzzNext]_vars

\* The router with wildcard routes.
WildNext ==
  \/ \E reg \in WildRegistrations :
       HandleUpTo(reg, MaxWildRoutes) /\ UNCHANGED <<rbVars, alVars, fzVars, ccVars>>
  \/ ServeHTTP /\ UNCHANGED <<rbVars, alVars, fzVars, ccVars>>

WildSpecInit == WildInit /\ RBIdle /\ ALIdle /\ FZIdle /\ CCIdle

WildSpec == WildSpecInit /\ [][WildNext]_vars

\* The router with patterns and paths around MaxDepth segments.
DepthNext ==
  \/ \E reg \in DepthRegistrations :
       HandleUpTo(reg, MaxDepthRoutes) /\ UNCHANGED <<rbVars, alVars, fzVars, ccVars>>
  \/ ServeHTTP /\ UNCHANGED <<rbVars, alVars, fzVars, ccVars>>

DepthSpecInit == DepthInit /\ RBIdle /\ ALIdle /\ FZIdle /\ CCIdle

DepthSpec == DepthSpecInit /\ [][DepthNext]_vars

\* Registration, Freeze and dispatch on the router and on its frozen copy.
SnapNext ==
  \/ \E reg \in SnapRegistrations :
       HandleUpTo(reg, MaxSnapRoutes) /\ UNCHANGED <<rbVars, alVars, fzVars, ccVars>>
  \/ FreezeRouter /\ UNCHANGED <<rbVars, alVars, fzVars, ccVars>>
  \/ ServeHTTP /\ UNCHANGED <<rbVars, alVars, fzVars, ccVars>>
  \/ FrozenRouterServeHTTP /\ UNCHANGED <<rbVars, alVars, fzVars, ccVars>>

SnapSpecInit == SnapInit /\ RBIdle /\ ALIdle /\ FZIdle /\ CCIdle

SnapSpec == SnapSpecInit /\ [][SnapNext]_vars

\* ServeHTTP on goroutine "d"; Handle on goroutine "w" and, called by a
\* handler, on goroutine "d".
ConcServeStep == ServeStep /\ UNCHANGED <<rbVars, alVars, fzVars>>

ConcHandleStep ==
  \E g \in Goroutines : HandleStep(g) /\ UNCHANGED <<rbVars, alVars, fzVars>>

ConcNext ==
  \/ \E req \in ConcRequests :
       ServeCall(req, MaxConcDispatches) /\ UNCHANGED <<rbVars, alVars, fzVars>>
  \/ ConcServeStep
  \/ \E g \in Goroutines, reg \in ConcRegistrations :
       HandleCall(g, reg, MaxConcRegistrations) /\ UNCHANGED <<rbVars, alVars, fzVars>>
  \/ ConcHandleStep

ConcSpecInit == ConcInit /\ RBIdle /\ ALIdle /\ FZIdle

ConcSpec == ConcSpecInit /\ [][ConcNext]_vars

\* The router with parameter and wildcard routes that share prefixes.
TrieNext ==
  \/ \E reg \in TrieRegistrations :
       HandleUpTo(reg, MaxTrieRoutes) /\ UNCHANGED <<rbVars, alVars, fzVars, ccVars>>
  \/ ServeHTTP /\ UNCHANGED <<rbVars, alVars, fzVars, ccVars>>

TrieSpecInit == TrieInit /\ RBIdle /\ ALIdle /\ FZIdle /\ CCIdle

TrieSpec == TrieSpecInit /\ [][TrieNext]_vars
(***************************************************************************)
(*                    Ring buffer: the claims                              *)
(***************************************************************************)

RECURSIVE FlattenEvents(_)
FlattenEvents(bs) ==
  IF bs = << >> THEN << >> ELSE Head(bs).events \o FlattenEvents(Tail(bs))

\* The events passed to the handler so far, in the order they were passed.
Delivered == FlattenEvents(batches)

Occurrences(seq, x) == Cardinality({k \in 1..Len(seq) : seq[k] = x})

AllProducersIdle == \A p \in Producers : prod[p].pc = "idle"
ConsumeRunning == cons.pc \notin {"idle", "returned", "panicked"}

\* A producer holds a slot from its successful head CAS until it stores READY.
Holds(p) == prod[p].pc \in {"wait", "mark", "data", "commit"}

\* The slot lies in the range the handler is running on.
InHandlerRange(k) ==
  /\ cons.pc = "handler"
  /\ Head(cons.ranges).lo <= k
  /\ k < Head(cons.ranges).hi

\* C1: when every TryWrite call returned before Close was called, then at the
\* return of Consume each event whose TryWrite returned true was passed to the
\* handler exactly once, no event whose TryWrite returned false was passed, and
\* the events were passed in the order of the successful head reservations.
C1_Conservation ==
  (cons.pc = "returned" /\ ~lateCall) =>
     /\ Delivered = reserved
     /\ \A e \in 1..calls :
          /\ results[e] \in {"true", "false"}
          /\ results[e] = "true" => Occurrences(Delivered, e) = 1
          /\ results[e] = "false" => Occurrences(Delivered, e) = 0

\* C1 witness: Consume returned after three calls, made before Close, of which
\* one was dropped and two were delivered.
C1_Witness ==
  /\ cons.pc = "returned"
  /\ ~lateCall
  /\ calls = 3
  /\ Len(Delivered) >= 2
  /\ \E e \in 1..calls : results[e] = "false"

\* C7: a TryWrite that starts on a closed buffer returns false, a TryWrite that
\* returns false has reserved nothing (head, tail and the slots are as it found
\* them), and as long as nothing was consumed at most Cap calls succeed: after
\* Cap successful writes every further call returns false.
C7_DropWhenFullOrClosed ==
  /\ \A e \in 1..calls :
       /\ startedClosed[e] => results[e] = "false"
       /\ results[e] = "false" => Occurrences(reserved, e) = 0
  /\ ~consumed =>
       /\ Len(reserved) <= Cap
       /\ head - tail <= Cap
       /\ Cardinality({e \in 1..calls : results[e] = "true"}) <= Cap

\* C7 witness: the buffer filled up without consumption, one call was dropped
\* because it was full and one because it was closed.
C7_Witness ==
  /\ ~consumed
  /\ Len(reserved) = Cap
  /\ \E e \in 1..calls : startedClosed[e] /\ results[e] = "false"
  /\ \E e \in 1..calls : ~startedClosed[e] /\ results[e] = "false"

\* C8: no slot held by a producer (reserved by the head CAS, not yet READY) lies
\* in a range the handler is running on, and no two producers hold the same slot.
C8_NoAliasing ==
  /\ \A p \in Producers : Holds(p) => ~InHandlerRange(prod[p].slotIdx)
  /\ \A p, q \in Producers :
       (p # q /\ Holds(p) /\ Holds(q)) => prod[p].slotIdx # prod[q].slotIdx

\* C8 witness: a producer writes its slot while the handler runs on another one.
C8_Witness ==
  /\ cons.pc = "handler"
  /\ \E p \in Producers : prod[p].pc = "data"

\* C9: Consume returns only when the buffer is closed and head = tail; and once
\* the buffer is closed, no TryWrite is in flight and Consume is running, Consume
\* eventually returns with every reserved event passed to the handler (unless
\* the handler panicked).
C9_ConsumeReturns ==
  /\ [][(cons.pc # "returned" /\ cons'.pc = "returned") =>
          (closed # 0 /\ head = tail)]_vars
  /\ (closed # 0 /\ AllProducersIdle /\ ConsumeRunning)
       ~> ((cons.pc = "returned" /\ Len(Delivered) = Len(reserved)) \/ panics > 0)

\* C9 witness: Consume returned although a TryWrite was still in flight when
\* Close was called, and every reserved event was delivered.
C9_Witness ==
  /\ cons.pc = "returned"
  /\ lateCall
  /\ Len(reserved) >= 2
  /\ Delivered = reserved

EffectiveParts(pattern) ==
  IF ignoreCaseActive(router)
    THEN LowerParts(getParts(pattern).parts)
    ELSE getParts(pattern).parts

\* A literal segment matches itself, a parameter one segment, a wildcard the
\* rest of the path (also an empty rest).
RECURSIVE PatternMatches(_, _)
PatternMatches(pparts, parts) ==
  IF pparts = << >> THEN parts = << >>
  ELSE IF Head(pparts)[1] = "*" THEN TRUE
  ELSE /\ parts # << >>
       /\ Head(pparts)[1] = ":" \/ Head(pparts) = Head(parts)
       /\ PatternMatches(Tail(pparts), Tail(parts))

\* 0 for a literal segment, 1 for a parameter, 2 for a wildcard.
Kind(part) == IF part[1] = ":" THEN 1 ELSE IF part[1] = "*" THEN 2 ELSE 0

\* The order of preference: at the first segment where two patterns differ
\* in kind the lower kind wins, and a pattern that ends wins over one that
\* goes on (with a wildcard).
RECURSIVE Preferred(_, _)
Preferred(p, q) ==
  IF p = << >> THEN TRUE
  ELSE IF q = << >> THEN FALSE
  ELSE IF Kind(Head(p)) # Kind(Head(q)) THEN Kind(Head(p)) < Kind(Head(q))
  ELSE Preferred(Tail(p), Tail(q))

\* The registrations of a host's table for a method that match the segments.
Matching(host, method, parts) ==
  {reg \in routes : /\ reg.host = host
                    /\ reg.method = method
                    /\ PatternMatches(EffectiveParts(reg.pattern), parts)}

HasTrailingSlash(p) == Len(p) > 1 /\ p[Len(p)] = "/"

\* The path is a form of the pattern: it matches segment by segment and, for
\* a pattern without wildcard, agrees with it on the trailing slash.
IsFormOf(path, pattern) ==
  /\ PatternMatches(EffectiveParts(pattern), getParts(path).parts)
  /\ \/ \E k \in 1..Len(pattern) : pattern[k] = "*"
     \/ HasTrailingSlash(path) <=> HasTrailingSlash(pattern)

\* The handler a registration passed, under the middlewares around it.
RECURSIVE BaseHandler(_)
BaseHandler(h) == IF "next" \in DOMAIN h THEN BaseHandler(h.next) ELSE h

TableHosts == {<< >>} \cup DOMAIN router.hosts

\* The paths lookups are made with: cleaned, and lower-cased under IgnoreCase.
MatchPathOf(path) ==
  IF ignoreCaseActive(router) THEN lowerASCII(path) ELSE path

CanonicalRequests == {r \in Requests : cleanPath(r.path) = r.path}

\* The table ServeHTTP consults first for a request.
FirstHost(r) ==
  IF normalizeHost(r.host) \in DOMAIN router.hosts THEN normalizeHost(r.host)
  ELSE << >>

ContextOf(r) == prepareRouteContext(r, router.UseRawPath, ignoreCaseActive(router))

\* C2 (as stated): the FrozenRouter returned by Freeze answers every request
\* as the Router it was frozen from: same status, same handler with the same
\* parameters, same Allow, same Location.
C2_FrozenParity ==
  (frozen # NoFrozen /\ frozen = Freeze(router)) =>
     \A r \in Requests : FrozenServeHTTP(frozen, r) = RouterServeHTTP(router, r)

\* C3: in every table and for every method, the trie lookup of a path misses
\* exactly when no registered pattern of that method matches the path, and
\* otherwise returns the matching pattern that is preferred segment by segment
\* in the order static, parameter, wildcard.
C3_LookupPriority ==
  \A host \in TableHosts :
    \A method \in DOMAIN TableOf(router, host).roots :
      \A path \in RequestPaths :
        LET segs == getParts(MatchPathOf(path))
            found == search(TableOf(router, host).roots[method], segs, 0,
                            << >>, FALSE).node
            matching == Matching(host, method, segs.parts)
        IN  /\ found = NilNode <=> matching = {}
            /\ found # NilNode =>
                 \E reg \in matching :
                   /\ BaseHandler(found.handler).method = reg.method
                   /\ BaseHandler(found.handler).pattern = reg.pattern
                   /\ \A other \in matching :
                        Preferred(EffectiveParts(reg.pattern),
                                  EffectiveParts(other.pattern))

\* C3 witness: a lookup that entered the static child of the root for the
\* first segment, missed below it, and came back to return a parameter or
\* wildcard route.
C3_Witness ==
  \E method \in DOMAIN router.table.roots :
    \E path \in RequestPaths :
      LET segs == getParts(MatchPathOf(path))
          root == router.table.roots[method]
          found == search(root, segs, 0, << >>, FALSE).node
      IN  /\ segs.parts # << >>
          /\ segs.parts[1] \in DOMAIN root.staticChildren
          /\ found # NilNode
          /\ Kind(getParts(found.pattern).parts[1]) > 0

\* The preconditions of C4 for a request with route context ctx in the table
\* of `host`.
NotServedThere(ctx, host) ==
  ~serveInTable(ctx.method, ctx.matchPath, ctx.paramPath, TableOf(router, host)).ok

OtherMethodRoute(r, ctx, host) ==
  \E reg \in routes : /\ reg.host = host
                      /\ reg.method # r.method
                      /\ IsFormOf(ctx.matchPath, reg.pattern)

SlashStepPasses(r, ctx, host) ==
  ~tryAlternateSlashInTable(router, r, ctx, TableOf(router, host)).ok

\* The answer C4 describes: 200 with Allow for OPTIONS, otherwise the override
\* if there is one, otherwise 405 with Allow; never a handler, never a body.
IsMethodNotAllowedAnswer(r, resp) ==
  /\ resp.allow # << >>
  /\ resp.handler = NoHandler
  /\ resp.location = NoHeader
  /\ IF r.method = "OPTIONS" THEN resp.status = 200 /\ resp.by = "router"
     ELSE IF router.MethodNotAllowed THEN resp.by = "MethodNotAllowed"
     ELSE resp.status = 405 /\ resp.by = "router"

\* C4 (as stated): a request that no handler serves in the table consulted
\* first, while that table has a route of another method for the path, gets
\* the method-not-allowed answer.
C4_AsStated ==
  \A r \in CanonicalRequests :
    LET ctx == ContextOf(r)
        host == FirstHost(r)
    IN  (OtherMethodRoute(r, ctx, host) /\ NotServedThere(ctx, host))
          => IsMethodNotAllowedAnswer(r, RouterServeHTTP(router, r))

\* C4 (amended): the same when in addition the alternate-slash step of that
\* table produced no response.
C4_MethodNotAllowed ==
  \A r \in CanonicalRequests :
    LET ctx == ContextOf(r)
        host == FirstHost(r)
    IN  (/\ OtherMethodRoute(r, ctx, host)
         /\ NotServedThere(ctx, host)
         /\ SlashStepPasses(r, ctx, host))
          => IsMethodNotAllowedAnswer(r, RouterServeHTTP(router, r))

\* C4 witness: with the override configured, a served OPTIONS request and a
\* served request of another method both meet the preconditions.
C4_Witness ==
  /\ op = "ServeHTTP"
  /\ router.MethodNotAllowed
  /\ \E r \in CanonicalRequests :
       /\ r.method = "OPTIONS"
       /\ OtherMethodRoute(r, ContextOf(r), FirstHost(r))
       /\ NotServedThere(ContextOf(r), FirstHost(r))
       /\ SlashStepPasses(r, ContextOf(r), FirstHost(r))
  /\ \E r \in CanonicalRequests :
       /\ r.method = "POST"
       /\ OtherMethodRoute(r, ContextOf(r), FirstHost(r))
       /\ NotServedThere(ContextOf(r), FirstHost(r))
       /\ SlashStepPasses(r, ContextOf(r), FirstHost(r))

\* Some route of the host's table has the path as one of its forms.
RegisteredForm(path, host) ==
  \E reg \in routes : reg.host = host /\ IsFormOf(path, reg.pattern)

\* C5 (as stated): with StrictSlash, a request whose path is not a registered
\* form while the path with the trailing slash toggled is one, is answered
\* with a redirect to that path, 301 for GET and HEAD and 308 otherwise.
C5_StrictSlashRedirect ==
  router.StrictSlash =>
    \A r \in CanonicalRequests :
      LET alt == alternatePath(r.path)
          resp == RouterServeHTTP(router, r)
      IN  (/\ alt.ok
           /\ RegisteredForm(MatchPathOf(alt.path), FirstHost(r))
           /\ ~RegisteredForm(MatchPathOf(r.path), FirstHost(r)))
            => /\ resp.by = "redirect"
               /\ resp.location = alt.path
               /\ resp.status = IF r.method \in {"GET", "HEAD"} THEN 301 ELSE 308

\* C6: a Handle call that returns an error leaves the tables of the router
\* as they were (tries, static maps, cached Allow strings, hasParams,
\* anyParams and hasTrailing flags), as well as the route count and the
\* registered routes, and every request is dispatched as before the call.
C6_FailedHandleChangesNothing ==
  [][(op' = "Handle" /\ lastErr' # "") =>
        /\ router'.table = router.table
        /\ router'.hosts = router.hosts
        /\ router'.routesCount = router.routesCount
        /\ routes' = routes
        /\ \/ router' = router
           \/ \A r \in Requests :
                RouterServeHTTP(router', r) = RouterServeHTTP(router, r)]_vars

\* C6 witness: a registration was rejected by the trie (duplicate or
\* conflict) on a router that already holds routes.
C6_Witness ==
  /\ op = "Handle"
  /\ lastErr \in {"duplicate route", "conflict"}
  /\ router.routesCount >= 1

(***************************************************************************)
(*                 Router: Allow, HEAD, duplicates                         *)
(***************************************************************************)

\* The order of the Allow header: methodOrder, then the custom methods in
\* lexicographic order.
AllowRank(m) ==
  CHOOSE i \in 1..Len(methodOrder \o CustomSorted) : (methodOrder \o CustomSorted)[i] = m

\* h is the header that lists exactly the methods of `set`: each once, in
\* the order of AllowRank, separated by ", ".
IsAllowHeaderOf(h, set) ==
  /\ set # {}
  /\ Len(h) = 2 * Cardinality(set) - 1
  /\ \A k \in 1..Len(h) : IF k % 2 = 0 THEN h[k] = ", " ELSE h[k] \in set
  /\ {h[k] : k \in {j \in 1..Len(h) : j % 2 = 1}} = set
  /\ \A i, j \in 1..Len(h) :
       (i % 2 = 1 /\ j % 2 = 1 /\ i < j) => AllowRank(h[i]) < AllowRank(h[j])

\* The methods whose lookup of the path in the table of `host` finds a route.
LookupMethods(path, host) ==
  {m \in Methods : serveMethodInTable(m, path, path, TableOf(router, host)).ok}

\* The methods with a registered pattern the path is a form of, and those
\* with a registered pattern that matches the segments of the path.
FormMethods(path, host) ==
  {reg.method : reg \in {q \in routes : q.host = host /\ IsFormOf(path, q.pattern)}}

SegmentMethods(path, host) ==
  {reg.method :
     reg \in {q \in routes :
                /\ q.host = host
                /\ PatternMatches(EffectiveParts(q.pattern), getParts(path).parts)}}

\* The methods an Allow header is to list for the methods found.
WithImplied(found) ==
  found \cup (IF "GET" \in found THEN {"HEAD"} ELSE {}) \cup {"OPTIONS"}

WithMethod(r, m) == [r EXCEPT !.method = m]

\* C12: a HEAD request is served by the HEAD route its lookup finds in the
\* table consulted first; without one, by the GET route the GET lookup finds
\* there, with the response a GET request gets; with neither, no handler of
\* that table serves the path as it was requested.
C12_HeadFallsBackToGet ==
  \A r \in {q \in AllowRequests : q.method = "HEAD"} :
    LET host == FirstHost(r)
        table == TableOf(router, host)
        resp == RouterServeHTTP(router, r)
        found == LookupMethods(r.path, host)
    IN  /\ "HEAD" \in found =>
             /\ resp.by = "handler"
             /\ BaseHandler(resp.handler).method = "HEAD"
             /\ BaseHandler(resp.handler).host = host
             /\ resp = serveMethodInTable("HEAD", r.path, r.path, table).resp
        /\ ("HEAD" \notin found /\ "GET" \in found) =>
             /\ resp.by = "handler"
             /\ BaseHandler(resp.handler).method = "GET"
             /\ BaseHandler(resp.handler).host = host
             /\ resp = RouterServeHTTP(router, WithMethod(r, "GET"))
        /\ ("HEAD" \notin found /\ "GET" \notin found) =>
             /\ ~serveInTable("HEAD", r.path, r.path, table).ok
             /\ (host = << >> /\ router.StrictSlash) => resp.by # "handler"
        /\ "HEAD" \in FormMethods(r.path, host) => "HEAD" \in found
        /\ "GET" \in FormMethods(r.path, host) => "GET" \in found
        /\ found \subseteq SegmentMethods(r.path, host)

\* C12 witness: one HEAD request was served by a HEAD route and another by
\* the GET route of its path, for which no HEAD route exists.
C12_Witness ==
  /\ op = "ServeHTTP"
  /\ \E r \in AllowRequests :
       /\ r.method = "HEAD"
       /\ BaseHandler(RouterServeHTTP(router, r).handler) # NoHandler
       /\ BaseHandler(RouterServeHTTP(router, r).handler).method = "HEAD"
  /\ \E r \in AllowRequests :
       /\ r.method = "HEAD"
       /\ "HEAD" \notin SegmentMethods(r.path, FirstHost(r))
       /\ RouterServeHTTP(router, r).by = "handler"
       /\ BaseHandler(RouterServeHTTP(router, r).handler).method = "GET"

(***************************************************************************)
(*                    Router: dispatch preprocessing                       *)
(***************************************************************************)

\* The response of prepareRouteContext for a path that is too long.
IsTooLong(resp) ==
  /\ resp.status = 414
  /\ resp.by = "router"
  /\ resp.handler = NoHandler
  /\ resp.allow = NoHeader
  /\ resp.location = NoHeader

\* The redirect of a request to the cleaned form of its path.
IsCleanRedirect(r, resp) ==
  /\ resp.by = "redirect"
  /\ resp.location = cleanPath(r.path)
  /\ resp.status = IF r.method \in {"GET", "HEAD"} THEN 301 ELSE 308
  /\ resp.handler = NoHandler

\* The response the route tables give to a request whose path went through
\* preprocessing unchanged.
FromTables(r) ==
  LET ctx == [ok |-> TRUE, method |-> r.method,
              matchPath |-> MatchPathOf(r.path), paramPath |-> r.path,
              resp |-> NoResponse]
      inDefault == dispatchInTable(router, r, ctx, router.table)
  IN  IF inDefault.ok THEN inDefault.resp ELSE respondNotFound(router.NotFound)

\* C13 (as stated): a path longer than MaxPathLength gets 414; otherwise a
\* path that differs from its cleaned form gets a redirect to the cleaned
\* form, 301 for GET and HEAD and 308 otherwise; only a canonical path of
\* admissible length is looked up in the tables.
C13_AsStated ==
  \A r \in CleanRequests :
    LET resp == RouterServeHTTP(router, r)
    IN  IF Len(r.path) > MaxPathLength THEN IsTooLong(resp)
        ELSE IF cleanPath(r.path) # r.path THEN IsCleanRedirect(r, resp)
        ELSE resp = FromTables(r)

\* C13 (amended): the same, with 414 also for a path of admissible length
\* whose cleaned form is longer than MaxPathLength.
C13_PreprocessingOrder ==
  \A r \in CleanRequests :
    LET resp == RouterServeHTTP(router, r)
    IN  IF Len(r.path) > MaxPathLength THEN IsTooLong(resp)
        ELSE IF Len(cleanPath(r.path)) > MaxPathLength THEN IsTooLong(resp)
        ELSE IF cleanPath(r.path) # r.path THEN IsCleanRedirect(r, resp)
        ELSE resp = FromTables(r)

\* C13 witness: with a parameter or wildcard route registered that matches
\* any single segment, requests were served whose path is too long, whose
\* path is not canonical and has no route for its cleaned form, and whose
\* path is canonical and of the maximal length.
C13_Witness ==
  /\ op = "ServeHTTP"
  /\ \E reg \in routes : IsParamPart(getParts(reg.pattern).parts[1])
  /\ \E r \in CleanRequests :
       Len(r.path) > MaxPathLength /\ cleanPath(r.path) # r.path
  /\ \E r \in CleanRequests :
       /\ Len(r.path) <= MaxPathLength
       /\ cleanPath(r.path) # r.path
       /\ Len(cleanPath(r.path)) <= MaxPathLength
       /\ FromTables([r EXCEPT !.path = cleanPath(r.path)]).status = 404
  /\ \E r \in CleanRequests :
       /\ Len(r.path) = MaxPathLength
       /\ RouterServeHTTP(router, r).by = "handler"

(***************************************************************************)
(*                       Router: host tables                               *)
(***************************************************************************)

\* The requests of the host model whose normalized Host has its own table.
HostTableRequests ==
  {r \in HostRequests : /\ normalizeHost(r.host) # << >>
                        /\ normalizeHost(r.host) \in DOMAIN router.hosts}

\* The answer the default table alone gives to the request.
FromDefaultTable(r) == RouterServeHTTP(router, [r EXCEPT !.host = << >>])

\* Some route of the default table matches the segments of the path under
\* the method.
DefaultMatches(r) == Matching(<< >>, r.method, getParts(r.path).parts) # {}

\* No route of the host's table, under any method, matches the segments of
\* the path.
UnknownTo(host, path) ==
  \A reg \in routes :
    reg.host = host => ~PatternMatches(EffectiveParts(reg.pattern),
                                       getParts(path).parts)

\* C14: for a request whose normalized Host has its own table, the answer is
\* the first response of serve, alternate-slash and method-not-allowed in the
\* host table, and the default table's answer only if none responded; a host
\* route for the method and path is served by the host's handler, a host
\* table method-not-allowed answer carries the host table's Allow whatever
\* the default table holds, and a path unknown to the host table gets the
\* default table's answer.
C14_HostTableFirst ==
  \A r \in HostTableRequests :
    LET host == normalizeHost(r.host)
        ctx == ContextOf(r)
        table == router.hosts[host]
        served == serveInTable(ctx.method, ctx.matchPath, ctx.paramPath, table)
        slash == tryAlternateSlashInTable(router, r, ctx, table)
        notAllowed == handleMethodNotAllowedInTable(router, r, ctx, table)
        resp == RouterServeHTTP(router, r)
    IN  /\ resp = IF served.ok THEN served.resp
                  ELSE IF slash.ok THEN slash.resp
                  ELSE IF notAllowed.ok THEN notAllowed.resp
                  ELSE FromDefaultTable(r)
        /\ (\E reg \in routes : /\ reg.host = host
                                /\ reg.method = r.method
                                /\ IsFormOf(r.path, reg.pattern))
             => /\ resp.by = "handler"
                /\ normalizeHost(BaseHandler(resp.handler).host) = host
                /\ BaseHandler(resp.handler).method = r.method
        /\ (/\ OtherMethodRoute(r, ctx, host)
            /\ NotServedThere(ctx, host)
            /\ SlashStepPasses(r, ctx, host))
             => /\ IsMethodNotAllowedAnswer(r, resp)
                /\ resp.allow = allowedMethodsInTable(ctx.matchPath, table).allow
        /\ UnknownTo(host, r.path) => resp = FromDefaultTable(r)

\* C14 witness: requests were served of which one is answered by a host
\* route while a default route matches too, one gets the host table's 405
\* while a default route for its method matches, and one, unknown to the
\* host table, is served by a handler of the default table.
C14_Witness ==
  /\ op = "ServeHTTP"
  /\ \E r \in HostTableRequests :
       /\ DefaultMatches(r)
       /\ RouterServeHTTP(router, r).by = "handler"
       /\ BaseHandler(RouterServeHTTP(router, r).handler).host # << >>
  /\ \E r \in HostTableRequests :
       /\ DefaultMatches(r)
       /\ RouterServeHTTP(router, r).status = 405
       /\ FromDefaultTable(r).by = "handler"
  /\ \E r \in HostTableRequests :
       /\ UnknownTo(normalizeHost(r.host), r.path)
       /\ RouterServeHTTP(router, r).by = "handler"
       /\ BaseHandler(RouterServeHTTP(router, r).handler).host = << >>

(***************************************************************************)
(*                         Router: IgnoreCase                              *)
(***************************************************************************)

\* The path segments equal the pattern's literal segments up to ASCII letter
\* case; a parameter takes one segment, a wildcard the rest.
RECURSIVE CaseMatches(_, _)
CaseMatches(pparts, parts) ==
  IF pparts = << >> THEN parts = << >>
  ELSE IF Head(pparts)[1] = "*" THEN TRUE
  ELSE /\ parts # << >>
       /\ Head(pparts)[1] = ":" \/ lowerASCII(Head(pparts)) = lowerASCII(Head(parts))
       /\ CaseMatches(Tail(pparts), Tail(parts))

\* The path is a form of the pattern up to case: it matches and, for a
\* pattern without wildcard, agrees with it on the trailing slash.
IsCaseFormOf(path, pattern) ==
  /\ CaseMatches(getParts(pattern).parts, getParts(path).parts)
  /\ \/ \E k \in 1..Len(pattern) : pattern[k] = "*"
     \/ HasTrailingSlash(path) <=> HasTrailingSlash(pattern)

\* The rest of the path from segment i on, as it stands in the path.
RestOfPath(path, parts, i) ==
  IF i > Len(parts) THEN << >>
  ELSE JoinSlash(SubSeq(parts, i, Len(parts)))
       \o (IF HasTrailingSlash(path) THEN <<"/">> ELSE << >>)

\* The parameters a pattern captures from a path: names as written in the
\* pattern, values as written in the path.
RECURSIVE CapturedFrom(_, _, _, _)
CapturedFrom(pparts, path, parts, i) ==
  IF i > Len(pparts) THEN << >>
  ELSE IF pparts[i][1] = "*"
    THEN << <<Tail(pparts[i]), RestOfPath(path, parts, i)>> >>
  ELSE IF pparts[i][1] = ":"
    THEN << <<Tail(pparts[i]), parts[i]>> >> \o CapturedFrom(pparts, path, parts, i + 1)
  ELSE CapturedFrom(pparts, path, parts, i + 1)

Captured(pattern, path) ==
  CapturedFrom(getParts(pattern).parts, path, getParts(path).parts, 1)

\* C15: with IgnoreCase in force, a request whose path is a form, up to
\* ASCII letter case, of a pattern registered for its method is served by a
\* handler, and whenever a handler serves a request its pattern matches the
\* path up to case and the parameters it sees have the names as written in
\* the pattern and the values as written in the request path.
C15_IgnoreCaseMatching ==
  ignoreCaseActive(router) =>
    \A r \in CaseRequests :
      LET resp == RouterServeHTTP(router, r)
          servedPattern == BaseHandler(resp.handler).pattern
      IN  /\ (\E reg \in routes : /\ reg.method = r.method
                                  /\ IsCaseFormOf(r.path, reg.pattern))
               => resp.by = "handler"
          /\ resp.by = "handler" =>
               /\ CaseMatches(getParts(servedPattern).parts, getParts(r.path).parts)
               /\ resp.params = Captured(servedPattern, r.path)

\* C15 witness: with IgnoreCase in force a request was served whose path
\* differs in case from the literal segment of the pattern that serves it,
\* with a captured value that has an upper-case letter under a name that has
\* one.
C15_Witness ==
  /\ op = "ServeHTTP"
  /\ ignoreCaseActive(router)
  /\ \E r \in CaseRequests :
       LET resp == RouterServeHTTP(router, r)
       IN  /\ resp.by = "handler"
           /\ ~PatternMatches(getParts(BaseHandler(resp.handler).pattern).parts,
                              getParts(r.path).parts)
           /\ \E k \in 1..Len(resp.params) :
                /\ lowerASCII(resp.params[k][1]) # resp.params[k][1]
                /\ lowerASCII(resp.params[k][2]) # resp.params[k][2]

(***************************************************************************)
(*                     Router: the IgnoreCase latch                        *)
(***************************************************************************)

\* C16 (as stated): the IgnoreCase value in force after the registration of
\* the first route is the value the field had at that registration, and once
\* a route is registered no step changes the value in force, whatever is
\* written to the field.
C16_LatchedAtFirstRoute ==
  [][/\ (op' = "Handle" /\ lastErr' = "" /\ routes = {})
          => ignoreCaseActive(router') = router.IgnoreCase
     /\ routes # {} => ignoreCaseActive(router') = ignoreCaseActive(router)]_vars

(***************************************************************************)
(*                    Router: middlewares and groups                       *)
(***************************************************************************)

\* The middlewares around a handler, outermost first.
RECURSIVE ChainOf(_)
ChainOf(h) == IF "next" \in DOMAIN h THEN <<h.mw>> \o ChainOf(h.next) ELSE << >>

IsPrefix(s, t) == Len(s) <= Len(t) /\ SubSeq(t, 1, Len(s)) = s

\* The handler a request for a route's own pattern is answered by (a
\* parameter takes the value x).
SamplePath(pattern) ==
  [k \in 1..Len(pattern) |-> IF pattern[k] = ":" THEN "x" ELSE pattern[k]]

StoredHandler(reg) ==
  RouterServeHTTP(router, [method |-> reg.method, path |-> SamplePath(reg.pattern),
                           host |-> reg.host]).handler

\* C17: once a route is registered, Use with at least one middleware returns
\* an error and leaves the middleware list as it was; the list never loses a
\* middleware; and the handler of every registered route is wrapped, from
\* the outside, by all the middlewares of the list.
C17_UseBeforeRoutes ==
  /\ [](\A reg \in routes : IsPrefix(router.middlewares, ChainOf(StoredHandler(reg))))
  /\ [][/\ (op' = "Use" /\ routes # {})
             => (lastErr' # "" /\ router'.middlewares = router.middlewares)
        /\ IsPrefix(router.middlewares, router'.middlewares)]_vars

\* C17 witness: Use was refused on a router that holds a route and two
\* middlewares.
C17_Witness ==
  /\ op = "Use"
  /\ lastErr = "cannot add middleware after routes are registered"
  /\ routes # {}
  /\ Len(router.middlewares) = 2

\* What running a handler does when every middleware does something, calls
\* the next handler once, and does something more after it returned.
RECURSIVE Run(_)
Run(h) ==
  IF "next" \in DOMAIN h
    THEN <<[ev |-> "enter", mw |-> h.mw]>> \o Run(h.next)
         \o <<[ev |-> "leave", mw |-> h.mw]>>
    ELSE <<[ev |-> "handler", mw |-> ""]>>

Reverse(s) == [k \in 1..Len(s) |-> s[Len(s) + 1 - k]]

\* The run the claim describes for a chain of middlewares.
RunInOrder(chain) ==
  [k \in 1..Len(chain) |-> [ev |-> "enter", mw |-> chain[k]]]
  \o <<[ev |-> "handler", mw |-> ""]>>
  \o [k \in 1..Len(chain) |-> [ev |-> "leave", mw |-> Reverse(chain)[k]]]

\* The handler the table holds for a route since its registration.
TableHandler(reg) ==
  IF \E k \in 1..Len(reg.pattern) : reg.pattern[k] = ":"
    THEN search(router.table.roots[reg.method], getParts(SamplePath(reg.pattern)),
                0, << >>, FALSE).node.handler
    ELSE router.table.static[reg.method][reg.pattern]

\* C18: the handler that answers a request is the one the table holds for
\* the route since its registration, dispatch changes nothing in the router,
\* and the handler runs the router's middlewares in Use order, then those of
\* the parent group, then those of the nested group, then the handler the
\* application passed, and leaves them in the reverse order.
C18_MiddlewareOrder ==
  /\ [](\A r \in MwRequests :
          LET resp == RouterServeHTTP(router, r)
          IN  resp.by = "handler" =>
                \E reg \in routes :
                  /\ BaseHandler(resp.handler) =
                       [host |-> reg.host, method |-> reg.method,
                        pattern |-> reg.pattern]
                  /\ resp.handler = TableHandler(reg)
                  /\ Run(resp.handler) =
                       RunInOrder(router.middlewares \o reg.parentMws \o reg.nestedMws))
  /\ [][op' = "ServeHTTP" => router' = router]_vars

\* C18 witness: a request was served by a route registered on a nested
\* group, with router, parent-group and nested-group middlewares around it.
C18_Witness ==
  /\ op = "ServeHTTP"
  /\ Len(router.middlewares) = 2
  /\ \E r \in MwRequests :
       LET resp == RouterServeHTTP(router, r)
       IN  /\ resp.by = "handler"
           /\ \E reg \in routes :
                /\ BaseHandler(resp.handler).pattern = reg.pattern
                /\ Len(reg.parentMws) = 2
                /\ Len(reg.nestedMws) = 2

(***************************************************************************)
(*                      Router: duplicate routes                           *)
(***************************************************************************)

\* The routes of the table of a host for a method that have the segments of
\* the pattern.
SameSegments(host, method, pattern) ==
  {reg \in routes : /\ reg.host = host
                    /\ reg.method = method
                    /\ getParts(reg.pattern).parts = getParts(pattern).parts}

\* What Handle would return for a registration in the current state.
HandleResult(dreg) ==
  handle(router, dreg.host, dreg.method, dreg.pattern, dreg, << >>)

\* C19: per host and method at most one route has a given segment sequence;
\* registering a pattern whose segments a route of the same host and method
\* already has fails with the duplicate-route error, registers nothing and
\* leaves every request answered as before, by the first handler; a pattern
\* that no route of the same host and method has the segments of is
\* accepted, also when another method or another host has it.
C19_DuplicateRoute ==
  /\ \A reg \in routes :
       /\ SameSegments(reg.host, reg.method, reg.pattern) = {reg}
       /\ StoredHandler(reg) = reg
  /\ \A dreg \in DupRegistrations :
       LET res == HandleResult(dreg)
       IN  IF SameSegments(dreg.host, dreg.method, dreg.pattern) # {}
             THEN /\ res.err = "duplicate route"
                  /\ res.router.routesCount = router.routesCount
                  /\ \A r \in DupRequests :
                       RouterServeHTTP(res.router, r) = RouterServeHTTP(router, r)
             ELSE /\ res.err = ""
                  /\ RouterServeHTTP(res.router,
                       [method |-> dreg.method, path |-> SamplePath(dreg.pattern),
                        host |-> dreg.host]).handler = dreg

\* C19 witness: a Handle call failed with the duplicate-route error on a
\* router that holds a route with the pattern of another under another
\* method or host, and both a registration of the identical pattern and one
\* that differs by the trailing slash are duplicates there.
C19_Witness ==
  /\ op = "Handle"
  /\ lastErr = "duplicate route"
  /\ \E reg \in routes, other \in routes :
       /\ reg.pattern = other.pattern
       /\ reg.host # other.host \/ reg.method # other.method
  /\ \E reg \in routes, dreg \in DupRegistrations :
       /\ dreg.host = reg.host /\ dreg.method = reg.method
       /\ dreg.pattern = reg.pattern /\ dreg.id # reg.id
  /\ \E reg \in routes, dreg \in DupRegistrations :
       /\ dreg.host = reg.host /\ dreg.method = reg.method
       /\ dreg.pattern # reg.pattern
       /\ SameSegments(dreg.host, dreg.method, dreg.pattern) # {}

(***************************************************************************)
(*                          Router: panics                                 *)
(***************************************************************************)

\* The http.ResponseWriter ServeHTTP was called with.
OriginalWriter == "w"

\* The value the handler that answers panics with, NoPanic if it returns or
\* if no handler runs.
PanicOf(resp) ==
  IF resp.by = "handler" THEN BaseHandler(resp.handler).panics ELSE NoPanic

\* ServeHTTP with a deferred function that recovers whether or not a
\* PanicHandler is set.
ServeSwallowing(panicHandler, req, resp) ==
  IF PanicOf(resp) = NoPanic
    THEN [returned |-> TRUE, calls |-> << >>, panic |-> NoPanic]
    ELSE [returned |-> TRUE,
          calls |-> IF panicHandler
                      THEN <<[w |-> OriginalWriter, req |-> req, rec |-> PanicOf(resp)]>>
                      ELSE << >>,
          panic |-> NoPanic]

\* ServeHTTP around its body: with PanicHandler set, the deferred function
\* recovers and calls it with w, req and the recovered value; how the call
\* ends, the calls of PanicHandler, and the panic that reaches the caller.
ServeRecovering(panicHandler, req, resp) ==
  IF PanicOf(resp) = NoPanic
    THEN [returned |-> TRUE, calls |-> << >>, panic |-> NoPanic]
  ELSE IF panicHandler
    THEN [returned |-> TRUE,
          calls |-> <<[w |-> OriginalWriter, req |-> req, rec |-> PanicOf(resp)]>>,
          panic |-> NoPanic]
  ELSE [returned |-> FALSE, calls |-> << >>, panic |-> PanicOf(resp)]

RouterServe(r, req) == ServeRecovering(r.PanicHandler, req, RouterServeHTTP(r, req))

FrozenServe(fr, req) == ServeRecovering(fr.PanicHandler, req, FrozenServeHTTP(fr, req))

\* What the claim says of a call in which the handler panicked with value.
PanicContained(configured, req, value, out) ==
  IF configured
    THEN /\ out.returned
         /\ out.panic = NoPanic
         /\ out.calls = <<[w |-> OriginalWriter, req |-> req, rec |-> value]>>
    ELSE /\ ~out.returned
         /\ out.panic = value
         /\ out.calls = << >>

\* C20: when the route handler that answers a request panics, then with a
\* PanicHandler the call of ServeHTTP returns and PanicHandler was called
\* once, with the writer and the request of the call and the panic value;
\* without one the panic reaches the caller; for the Router and for the
\* FrozenRouter.
C20_PanicHandler ==
  \A r \in PanicRequests :
    /\ PanicOf(RouterServeHTTP(router, r)) # NoPanic
         => PanicContained(router.PanicHandler, r,
                           PanicOf(RouterServeHTTP(router, r)),
                           RouterServe(router, r))
    /\ (frozen # NoFrozen /\ PanicOf(FrozenServeHTTP(frozen, r)) # NoPanic)
         => PanicContained(frozen.PanicHandler, r,
                           PanicOf(FrozenServeHTTP(frozen, r)),
                           FrozenServe(frozen, r))

\* C20 witness: the frozen router served a request whose handler panics, on
\* a parameter route, and the router answers a request with a panicking
\* handler of a static route.
C20_Witness ==
  /\ op = "FrozenServeHTTP"
  /\ frozen # NoFrozen
  /\ \E r \in PanicRequests :
       /\ FrozenServeHTTP(frozen, r).params # << >>
       /\ PanicOf(FrozenServeHTTP(frozen, r)) = "bang"
  /\ \E r \in PanicRequests :
       /\ RouterServeHTTP(router, r).params = << >>
       /\ PanicOf(RouterServeHTTP(router, r)) = "boom"

(***************************************************************************)
(*                     CLAIMS ABOUT THE ACCESS LOG                         *)
(***************************************************************************)

\* The status the access log owes a finished request: the first one its handler
\* set, else 500 after a panic and 200 after a return.
OwedStatus(sets, panicked) ==
  IF sets # << >> THEN Head(sets)
  ELSE IF panicked THEN StatusInternalServerError
  ELSE StatusOK

\* The wrapper has reached its rb.TryWrite call.
Attempted(r) == al[r].pc \in {"trywrite", "returned", "panicked"}

EncodedFromTables(r) ==
  LET ctx == [ok |-> TRUE, method |-> r.method,
              matchPath |-> MatchPathOf(r.rawPath), paramPath |-> r.rawPath,
              resp |-> NoResponse]
      inDefault == dispatchInTable(router, r, ctx, router.table)
  IN  IF inDefault.ok THEN inDefault.resp ELSE respondNotFound(router.NotFound)

\* The answer to the same request on a router without UseRawPath.
DecodedAnswer(r) ==
  RouterServeHTTP([router EXCEPT !.UseRawPath = FALSE],
                  [method |-> r.method, host |-> r.host, path |-> r.path])

\* raw is a percent-encoding of path: well formed, and decoding to it.
EncodesPath(raw, path) ==
  /\ validEncoded(raw)
  /\ unescape(raw).ok
  /\ unescape(raw).path = path

\* The captured values of a response.
ValuesOf(resp) == {resp.params[k][2] : k \in 1..Len(resp.params)}

\* C22: a request takes the raw branch exactly when UseRawPath is set, its
\* RawPath is not empty and RawPath is the escaped form of Path; it is then
\* answered from the tables on its encoded path, without cleaning and without a
\* redirect to the cleaned path; every other request is answered as on a
\* router without UseRawPath, from its decoded path.
C22_RawBranch ==
  \A r \in RawRequests :
    LET resp == RouterServeHTTP(router, r)
    IN  IF router.UseRawPath /\ r.rawPath # << >>
             /\ EncodesPath(r.rawPath, r.path)
          THEN /\ resp = EncodedFromTables(r)
               /\ cleanPath(r.path) # r.path => ~IsCleanRedirect(r, resp)
          ELSE resp = DecodedAnswer(r)

\* C22 witness: with UseRawPath set, a request whose RawPath encodes a slash
\* was served with the encoded value captured, a request with a non-canonical
\* encoded path was answered without a redirect, and a request whose RawPath
\* does not encode its Path was answered from the decoded path.
C22_Witness ==
  /\ op = "ServeHTTP"
  /\ router.UseRawPath
  /\ \E r \in RawRequests :
       /\ EncodesPath(r.rawPath, r.path)
       /\ RouterServeHTTP(router, r).by = "handler"
       /\ <<"a", "%", "2", "F", "b">> \in ValuesOf(RouterServeHTTP(router, r))
  /\ \E r \in RawRequests :
       /\ EncodesPath(r.rawPath, r.path)
       /\ cleanPath(r.path) # r.path
       /\ RouterServeHTTP(router, r).by = "handler"
  /\ \E r \in RawRequests :
       /\ r.rawPath # << >>
       /\ ~EncodesPath(r.rawPath, r.path)
       /\ RouterServeHTTP(router, r).by = "handler"
       /\ <<"x">> \in ValuesOf(RouterServeHTTP(router, r))

(***************************************************************************)
(*                   CLAIMS ABOUT THE SEGMENT RECORD                       *)
(***************************************************************************)

HasBadByte(s) == \E k \in 1..Len(s) : s[k] \in BadBytes

\* C23: for a path without NUL, CR and LF the segment record has one offset
\* per segment and a final sentinel equal to the length of the path, the
\* offsets increase strictly, every segment is non-empty and without '/', and
\* segment i is the path from offset i on; a path with NUL, CR or LF is
\* rejected and yields no record.
C23_SegmentRecord ==
  fuzzSegs.called =>
    LET p == fuzzSegs.match
        parts == fuzzSegs.parts
        indices == fuzzSegs.indices
    IN  IF HasBadByte(fuzzInput)
          THEN ~fuzzSegs.ok /\ parts = << >> /\ indices = << >>
          ELSE /\ fuzzSegs.ok
               /\ Len(p) = Len(fuzzInput)
               /\ Len(indices) = Len(parts) + 1
               /\ indices[Len(indices)] = Len(p)
               /\ \A i \in 1..(Len(indices) - 1) : indices[i] < indices[i + 1]
               /\ \A i \in 1..Len(parts) :
                    /\ parts[i] # << >>
                    /\ \A k \in 1..Len(parts[i]) : parts[i][k] # "/"
                    /\ indices[i] >= 0
                    /\ parts[i] = Slice(p, indices[i], indices[i] + Len(parts[i]))

\* C23 witness: a path with an empty segment in the middle was parsed into two
\* segments, the second one lower-cased for matching.
C23_Witness ==
  /\ fuzzSegs.called
  /\ fuzzSegs.ok
  /\ fuzzInput = <<"a", "/", "/", "B">>
  /\ fuzzSegs.parts = << <<"a">>, <<"b">> >>
  /\ fuzzSegs.indices = <<0, 3, 4>>

(***************************************************************************)
(*                    CLAIMS ABOUT WILDCARD ROUTES                         *)
(***************************************************************************)

\* The registered routes whose pattern ends in a wildcard.
WildRoutes ==
  {reg \in routes : LET pp == getParts(reg.pattern).parts
                    IN  pp # << >> /\ pp[Len(pp)][1] = "*"}

\* prefix and name of the pattern prefix/*name.
WildName(pattern) == LET pp == getParts(pattern).parts IN Tail(pp[Len(pp)])

WildPrefix(pattern) == SubSeq(pattern, 1, Len(pattern) - Len(WildName(pattern)) - 2)

\* The path after its first n bytes.
After(path, n) == SubSeq(path, n + 1, Len(path))

\* The bytes the first n segments of a canonical path take, slashes included.
RECURSIVE SegmentBytes(_, _)
SegmentBytes(parts, n) ==
  IF n = 0 \/ parts = << >> THEN 0
  ELSE 1 + Len(Head(parts)) + SegmentBytes(Tail(parts), n - 1)

\* The value the response holds under a name.
ValueUnder(resp, name) ==
  {resp.params[k][2] : k \in {j \in 1..Len(resp.params) : resp.params[j][1] = name}}

\* The request was served by the handler registered with the route.
ServedBy(resp, reg) ==
  /\ resp.by = "handler"
  /\ BaseHandler(resp.handler).method = reg.method
  /\ BaseHandler(resp.handler).pattern = reg.pattern

\* A route of the method is registered for a path or for its other slash form.
RouteFor(method, path) ==
  \E reg \in routes :
    /\ reg.method = method
    /\ reg.pattern \in {path, path \o <<"/">>}

\* C24: when the route prefix/*name serves a request, the value under name is
\* the part of the request path after "prefix/" as the request wrote it, and
\* it does not begin with '/'; a request for prefix or prefix/ is served by
\* the route with the empty string under name when no route is registered for
\* the prefix itself.
C24_WildcardCapture ==
  \A reg \in WildRoutes, r \in WildRequests :
    LET resp == RouterServeHTTP(router, r)
        prefix == WildPrefix(reg.pattern)
        rest == After(r.path, SegmentBytes(getParts(r.path).parts,
                                           Len(getParts(prefix).parts)) + 1)
    IN  /\ ServedBy(resp, reg) =>
             /\ ValueUnder(resp, WildName(reg.pattern)) = {rest}
             /\ rest = << >> \/ rest[1] # "/"
        /\ ( /\ reg.method = r.method
             /\ r.path \in {prefix, prefix \o <<"/">>}
             /\ ~RouteFor(r.method, IF prefix = << >> THEN <<"/">> ELSE prefix) )
             => ServedBy(resp, reg) /\ rest = << >>

\* C24 witness: the route /s/*w served /s/a/b with "a/b" captured, and served
\* /s and /s/ with the empty string captured.
C24_Witness ==
  /\ op = "ServeHTTP"
  /\ \E reg \in WildRoutes :
       /\ reg.pattern = <<"/", "s", "/", "*", "w">>
       /\ \E r \in WildRequests :
            /\ r.path = <<"/", "s", "/", "a", "/", "b">>
            /\ ServedBy(RouterServeHTTP(router, r), reg)
            /\ ValueUnder(RouterServeHTTP(router, r), <<"w">>) = {<<"a", "/", "b">>}
       /\ \A r \in WildRequests :
            r.path \in {<<"/", "s">>, <<"/", "s", "/">>} =>
              /\ ServedBy(RouterServeHTTP(router, r), reg)
              /\ ValueUnder(RouterServeHTTP(router, r), <<"w">>) = {<< >>}

(***************************************************************************)
(*                 CLAIMS ABOUT THE TRAILING SLASH                         *)
(***************************************************************************)

\* The request with the trailing slash of its path toggled.
Toggled(r) == [r EXCEPT !.path = alternatePath(r.path).path]

\* The methods with a route, in the table of host, for the path in one of
\* its two slash forms.
EitherFormMethods(path, host) ==
  FormMethods(path, host) \cup FormMethods(alternatePath(path).path, host)

\* The method is served by the routes of these methods: it is one of them,
\* or it is HEAD and GET is one of them.
ServedAmong(method, methods) ==
  method \in methods \/ (method = "HEAD" /\ "GET" \in methods)

\* C25: without StrictSlash, when the table consulted first has a route of
\* the request's method for the path in one of its slash forms, the request
\* and the request with the slash toggled are served by the same handler and
\* none is redirected; when it has such routes for other methods only, the
\* request gets the method-not-allowed answer with the Allow header of the
\* methods registered for the path.
C25_SlashEquivalence ==
  ~router.StrictSlash =>
    \A r \in {q \in AllowRequests : alternatePath(q.path).ok} :
      LET host == FirstHost(r)
          resp == RouterServeHTTP(router, r)
          respAlt == RouterServeHTTP(router, Toggled(r))
          methods == EitherFormMethods(r.path, host)
      IN  /\ resp.by # "redirect"
          /\ ServedAmong(r.method, methods) =>
               /\ resp.by = "handler"
               /\ respAlt.by = "handler"
               /\ resp.handler = respAlt.handler
          /\ (methods # {} /\ ~ServedAmong(r.method, methods)) =>
               /\ IsMethodNotAllowedAnswer(r, resp)
               /\ IsAllowHeaderOf(resp.allow, WithImplied(methods))

(***************************************************************************)
(*                       CLAIMS ABOUT MaxDepth                             *)
(***************************************************************************)

SegmentCount(p) == Len(getParts(p).parts)

\* What Handle would return for a registration of the depth model.
DepthHandle(reg) ==
  handle(router, reg.host, reg.method, reg.pattern, HandlerOf(reg), << >>)

\* C26: a pattern of exactly MaxDepth segments is registered without error
\* (unless its method has a route of the same segments already) and then
\* serves its path; a pattern of more than MaxDepth segments fails with the
\* route-too-deep error and leaves the router as it was; a request path of
\* more than MaxDepth segments is served by no route, a wildcard route whose
\* prefix it has included, and gets the not-found answer.
C26_MaxDepth ==
  /\ \A reg \in DepthRegistrations :
       LET res == DepthHandle(reg)
       IN  /\ SegmentCount(reg.pattern) > MaxDepth =>
                res.err = "route too deep" /\ res.router = router
           /\ SegmentCount(reg.pattern) <= MaxDepth => res.err # "route too deep"
           /\ ( /\ SegmentCount(reg.pattern) = MaxDepth
                /\ \A q \in routes :
                     \/ q.method # reg.method
                     \/ getParts(q.pattern).parts # getParts(reg.pattern).parts )
                => /\ res.err = ""
                   /\ \E r \in DepthRequests :
                        /\ SegmentCount(r.path) = MaxDepth
                        /\ RouterServeHTTP(res.router, r).by = "handler"
                        /\ BaseHandler(RouterServeHTTP(res.router, r).handler).pattern
                             = reg.pattern
  /\ \A r \in DepthRequests :
       SegmentCount(r.path) > MaxDepth =>
         RouterServeHTTP(router, r) = respondNotFound(router.NotFound)

\* C26 witness: a route of MaxDepth segments and a wildcard route under /a are
\* registered, and requests of MaxDepth and of more segments have been
\* answered.
C26_Witness ==
  /\ \E reg \in routes : SegmentCount(reg.pattern) = MaxDepth
  /\ \E reg \in routes : reg.pattern = <<"/", "a", "/", "*", "w">>
  /\ op = "ServeHTTP"
  /\ \E r \in DepthRequests :
       /\ SegmentCount(r.path) = MaxDepth
       /\ RouterServeHTTP(router, r).by = "handler"
  /\ \E r \in DepthRequests :
       /\ SegmentCount(r.path) > MaxDepth
       /\ RouterServeHTTP(router, r).status = 404

(***************************************************************************)
(*                       CLAIMS ABOUT Freeze                               *)
(***************************************************************************)

\* The patterns of the leaves of a frozen trie.
RECURSIVE FrozenPatterns(_)
FrozenPatterns(fn) ==
  IF fn = NilNode THEN {}
  ELSE (IF fn.pattern = << >> THEN {} ELSE {<<fn.pattern, fn.handler>>})
       \cup UNION {FrozenPatterns(fn.staticChildren[p]) : p \in DOMAIN fn.staticChildren}
       \cup FrozenPatterns(fn.paramChild)
       \cup FrozenPatterns(fn.wildChild)

HasParamPart(pattern) ==
  \E k \in 1..Len(getParts(pattern).parts) : IsParamPart(getParts(pattern).parts[k])

\* The handler registered with a route of the snapshot model.
RouteHandler(q) == [host |-> q.host, method |-> q.method, pattern |-> q.pattern]

\* The frozen table ft holds the routes rs, each of them in all the
\* structures it belongs to, and nothing else.
TableHolds(ft, rs) ==
  /\ \A m \in {q.method : q \in rs} \cup DOMAIN ft.roots \cup DOMAIN ft.static :
       LET ofMethod == {q \in rs : q.method = m}
           static == {q \in ofMethod : ~HasParamPart(q.pattern)}
       IN  /\ (IF m \in DOMAIN ft.roots THEN FrozenPatterns(ft.roots[m]) ELSE {})
                = {<<q.pattern, RouteHandler(q)>> : q \in ofMethod}
           /\ (IF m \in DOMAIN ft.static
                 THEN {<<p, ft.static[m][p]>> : p \in DOMAIN ft.static[m]} ELSE {})
                = {<<q.pattern, RouteHandler(q)>> : q \in static}
           /\ (m \in DOMAIN ft.hasParams /\ ft.hasParams[m]) <=> static # ofMethod
  /\ ft.anyParams <=> \E q \in rs : HasParamPart(q.pattern)
  /\ DOMAIN ft.staticAllow = {q.pattern : q \in {x \in rs : ~HasParamPart(x.pattern)}}

\* The frozen router fr holds exactly the routes rts.
SnapshotOf(fr, rts) ==
  /\ TableHolds(fr.table, {q \in rts : q.host = << >>})
  /\ \A h \in DOMAIN fr.hosts : TableHolds(fr.hosts[h], {q \in rts : q.host = h})
  /\ \A q \in rts : q.host = << >> \/ q.host \in DOMAIN fr.hosts

\* C27: Freeze snapshots the router: the frozen router holds every route
\* registered before the call in all its structures (trie leaf, and for a
\* route without parameters static map and Allow cache) and no part of
\* anything else; a Handle call after Freeze leaves the frozen router and
\* every response of it as they were.
C27_FreezeSnapshot ==
  [][ /\ op' = "Freeze" => SnapshotOf(frozen', routes)
      /\ (op' = "Handle" /\ frozen # NoFrozen) =>
            /\ frozen' = frozen
            /\ \A r \in SnapRequests :
                 FrozenServeHTTP(frozen', r) = FrozenServeHTTP(frozen, r) ]_vars

\* C27 witness: a route registered after Freeze is served by the router and
\* unknown to the frozen router, which holds the routes registered before.
C27_Witness ==
  /\ op = "Handle" /\ lastErr = ""
  /\ frozen # NoFrozen
  /\ \E q \in routes : SnapshotOf(frozen, routes \ {q}) /\ routes # {q}
  /\ \E r \in SnapRequests :
       /\ RouterServeHTTP(router, r).by = "handler"
       /\ FrozenServeHTTP(frozen, r).status = 404


\* ---------------------------------------------------------------------------
\* head and tail (src/unnamed/part_008:258-268, 349-357)
\* ---------------------------------------------------------------------------

\* tail <= head and head - tail <= capacity, head counting the reservations.
IndexBounds ==
  /\ tail <= head
  /\ head - tail <= Cap
  /\ head = Len(reserved)
  /\ tail <= Len(Delivered)

\* C28: in every reachable state tail <= head and head - tail <= capacity, head
\* being the number of reservations made and tail the number of events whose
\* consumption was published; head changes only in the step of a producer whose
\* compare-and-swap finds head equal to the value h it loaded, and then to
\* h + 1; tail changes only in the consumer's store after its commit loop, to
\* the number of events handed to the handler; neither ever decreases.
C28_HeadTailBounds ==
  [][ /\ IndexBounds
      /\ IndexBounds'
      /\ head' >= head
      /\ tail' >= tail
      /\ head' # head =>
            \E p \in Producers :
               /\ prod[p].pc = "cas"
               /\ prod[p].h = head
               /\ head' = prod[p].h + 1
               /\ prod'[p].pc = "wait"
               /\ \A q \in Producers \ {p} : prod'[q] = prod[q]
               /\ cons' = cons
               /\ tail' = tail
      /\ tail' # tail =>
            /\ cons.pc = "commit"
            /\ cons.i >= cons.available
            /\ cons'.pc = "loop"
            /\ tail = cons.curr
            /\ tail' = tail + cons.available
            /\ tail' = Len(Delivered)
            /\ prod' = prod
            /\ head' = head ]_vars

\* C28 witness: the buffer is full again after a consumption was published and
\* head has gone past the capacity.
C28_Witness ==
  /\ tail > 0
  /\ head - tail = Cap
  /\ head > Cap
  /\ consumed

\* ---------------------------------------------------------------------------
\* Slot states (src/unnamed/part_008:266-284, 326-357)
\* ---------------------------------------------------------------------------

\* Producer p reserved slot k by its head CAS and no other producer is past the
\* wait loop on that slot.
ReservedBy(p, k) ==
  /\ prod[p].slotIdx = k
  /\ k = AndMask(prod[p].h)
  /\ prod[p].h < Len(reserved)
  /\ reserved[prod[p].h + 1] = prod[p].event
  /\ \A q \in Producers \ {p} :
        ~(prod[q].pc \in {"mark", "data", "commit"} /\ prod[q].slotIdx = k)

\* The consumer is in its commit loop at slot k, and the event of the slot was
\* passed to the handler in a consumeBatch call that is over.
ReleasedByConsumer(k) ==
  /\ cons.pc = "commit"
  /\ cons.i < cons.available
  /\ k = AndMask(cons.curr + cons.i)
  /\ Len(Delivered) = cons.curr + cons.available
  /\ Delivered[cons.curr + cons.i + 1] = data[k]
  /\ \E j \in 1..Len(batches) : batches[j].lo <= k /\ k < batches[j].hi

\* C29: the state of a slot changes only from EMPTY to WRITING and from WRITING
\* to READY, both in a step of the producer that reserved the slot by the head
\* CAS, and from READY to EMPTY in the consumer's commit loop, after every
\* consumeBatch call of the batch that holds the slot is over (the handler
\* returned, or its panic went to PanicHandler); the event of a slot is written
\* only by that producer and only while the state is WRITING.
C29_SlotTransitions ==
  [][ \A k \in 0..mask :
        /\ state'[k] # state[k] =>
              \/ /\ state[k] = slotEmpty
                 /\ state'[k] = slotWriting
                 /\ \E p \in Producers :
                       prod[p].pc = "mark" /\ prod'[p].pc = "data" /\ ReservedBy(p, k)
              \/ /\ state[k] = slotWriting
                 /\ state'[k] = slotReady
                 /\ \E p \in Producers :
                       prod[p].pc = "commit" /\ prod'[p].pc = "idle" /\ ReservedBy(p, k)
              \/ /\ state[k] = slotReady
                 /\ state'[k] = slotEmpty
                 /\ ReleasedByConsumer(k)
                 /\ prod' = prod
        /\ data'[k] # data[k] =>
              /\ state[k] = slotWriting
              /\ state'[k] = slotWriting
              /\ \E p \in Producers :
                    /\ prod[p].pc = "data"
                    /\ ReservedBy(p, k)
                    /\ data'[k] = prod[p].event ]_vars

\* C29 witness: the consumer releases the second slot of a batch that was
\* passed in two calls, the first of which panicked, while a slot written for
\* the second time is READY.
C29_Witness ==
  /\ cons.pc = "commit"
  /\ cons.i = 1
  /\ cons.available = 2
  /\ Len(batches) >= 3
  /\ panics > 0
  /\ state[AndMask(cons.curr)] = slotEmpty
  /\ state[AndMask(cons.curr + 1)] = slotReady
  /\ data[AndMask(cons.curr + 1)] = reserved[cons.curr + 2]

\* ---------------------------------------------------------------------------
\* The handler calls of one batch (src/unnamed/part_008:311-347)
\* ---------------------------------------------------------------------------

\* The slots of the range data[lo:hi], in the order the handler reads them.
SlotsOf(b) == [k \in 1..(b.hi - b.lo) |-> b.lo + k - 1]

\* The batch the consumer counted crosses the end of the slot array.
CrossesEnd == cons.slotIdx + cons.available > Cap

\* The consumeBatch calls made for the batch the consumer is committing: the
\* calls after those that passed the cons.curr events before the batch.
CallsOfBatch ==
  LET n == IF CrossesEnd THEN 2 ELSE 1
  IN  IF Len(batches) < n THEN << >>
      ELSE SubSeq(batches, Len(batches) - n + 1, Len(batches))

\* The capacities of the buffers whose batches are enumerated.
MaxBatchCapacity == 16
BatchCapacities == {c \in 1..MaxBatchCapacity : NewRingBufferOK(c)}

RECURSIVE SlotsOfRanges(_)
SlotsOfRanges(rs) ==
  IF rs = << >> THEN << >> ELSE SlotsOf(Head(rs)) \o SlotsOfRanges(Tail(rs))

\* For every capacity, cursor slot and batch size: one range if the batch ends
\* at or before the end of the array, two if it goes past it; ranges non-empty
\* and within the array; together the slots of the batch, each once, in order.
RangesOfEveryBatch ==
  \A c \in BatchCapacities :
    \A nextSlot \in 0..(c - 1) :
      \A available \in 1..(IF c > BatchCap THEN BatchCap ELSE c) :
        LET rs == BatchRangesFor(c, nextSlot, available)
            slots == SlotsOfRanges(rs)
        IN  /\ Len(rs) = (IF nextSlot + available > c THEN 2 ELSE 1)
            /\ \A j \in 1..Len(rs) : 0 <= rs[j].lo /\ rs[j].lo < rs[j].hi /\ rs[j].hi <= c
            /\ Len(rs) = 2 => rs[1].hi = c /\ rs[2].lo = 0
            /\ slots = [i \in 1..available |-> (nextSlot + i - 1) % c]
            /\ \A i, j \in 1..Len(slots) : i # j => slots[i] # slots[j]

\* C30: when the consumer has made the handler calls for a batch of `available`
\* READY slots starting at its cursor, it has made exactly one call if the
\* batch does not cross the end of the slot array and exactly two if it does,
\* the first up to the end of the array and the second from index 0; every
\* range passed is non-empty and lies within the array, no slot is in two
\* ranges, and the ranges taken in call order are the slots curr, curr+1, ...,
\* curr+available-1 (mod capacity), holding the events reserved at those
\* positions; and the ranges computed for any cursor and batch size in buffers
\* of up to MaxBatchCapacity slots are of that shape.
C30_BatchCalls ==
  /\ RangesOfEveryBatch
  /\ cons.pc = "commit" =>
    LET calls_ == CallsOfBatch
        n == Len(calls_)
        before == SubSeq(batches, 1, Len(batches) - n)
        slots == IF n = 2 THEN SlotsOf(calls_[1]) \o SlotsOf(calls_[2])
                 ELSE SlotsOf(calls_[1])
        events == IF n = 2 THEN calls_[1].events \o calls_[2].events
                  ELSE calls_[1].events
    IN  /\ cons.available > 0
        /\ cons.available <= BatchLimit
        /\ cons.slotIdx = AndMask(cons.curr)
        /\ \A i \in cons.i..(cons.available - 1) :
              state[AndMask(cons.curr + i)] = slotReady
        /\ n = (IF CrossesEnd THEN 2 ELSE 1)
        /\ Len(FlattenEvents(before)) = cons.curr
        /\ \A j \in 1..n :
              /\ 0 <= calls_[j].lo
              /\ calls_[j].lo < calls_[j].hi
              /\ calls_[j].hi <= Cap
        /\ n = 2 =>
              /\ calls_[1].lo = cons.slotIdx
              /\ calls_[1].hi = Cap
              /\ calls_[2].lo = 0
              /\ calls_[2].hi = cons.slotIdx + cons.available - Cap
              /\ calls_[2].hi <= calls_[1].lo
        /\ slots = [i \in 1..cons.available |-> AndMask(cons.curr + i - 1)]
        /\ \A i, j \in 1..Len(slots) : i # j => slots[i] # slots[j]
        /\ events = [i \in 1..cons.available |-> reserved[cons.curr + i]]

\* C30 witness: a batch of two slots that starts at the last slot of the array
\* was passed in two calls, after a batch of one call, and none was released.
C30_Witness ==
  /\ cons.pc = "commit"
  /\ cons.i = 0
  /\ CrossesEnd
  /\ cons.slotIdx = Cap - 1
  /\ cons.available = 2
  /\ Len(batches) = 3
  /\ panics = 0

\* ---------------------------------------------------------------------------
\* TryWrite does not wait (src/unnamed/part_008:253-288)
\* ---------------------------------------------------------------------------

\* The producer is past its successful head CAS and has not returned.
PastCAS(p) == prod[p].pc \in {"wait", "mark", "data", "commit"}

\* C31: whenever a producer has reserved a slot by its head CAS and stands at
\* the wait-for-EMPTY loop, the slot is EMPTY, so the loop does not iterate; a
\* producer that reads a full buffer returns false in that step; and with only
\* the producers scheduled (Consume never run, or stopped anywhere) every call
\* whose CAS succeeded returns.
C31_NeverWaits ==
  /\ [](\A p \in Producers :
          prod[p].pc = "wait" => state[prod[p].slotIdx] = slotEmpty)
  /\ [][\A p \in Producers :
          (prod[p].pc = "tail" /\ BufferFull(prod[p].h, tail) /\ prod'[p] # prod[p])
             => (prod'[p].pc = "idle" /\ results'[prod[p].event] = "false")]_vars
  /\ \A p \in Producers : PastCAS(p) ~> (prod[p].pc = "idle")

\* C31 witness: a producer stands at the wait loop for a slot used before, which
\* the consumer released in its latest publication of tail.
C31_Witness ==
  \E p \in Producers :
    /\ prod[p].pc = "wait"
    /\ prod[p].h >= Cap
    /\ tail = prod[p].h - Cap + 1
    /\ state[prod[p].slotIdx] = slotEmpty
    /\ data[prod[p].slotIdx] # NoEvent

\* ---------------------------------------------------------------------------
\* Dropped events (src/unnamed/part_008:243-288)
\* ---------------------------------------------------------------------------

\* C32: a TryWrite call returns false only if the buffer was closed when the
\* call started or if at some instant during the call the buffer held Cap
\* unconsumed reservations (head - tail = Cap).
C32_DropOnlyWhenFull ==
  \A e \in 1..calls :
    results[e] = "false" => (startedClosed[e] \/ e \in sawFull)

\* The drop that C32 excludes: a call on an open buffer returned false although
\* the buffer never held Cap reservations since the buffer was made.
C32_SpuriousDrop ==
  \E e \in 1..calls :
    /\ results[e] = "false"
    /\ ~startedClosed[e]
    /\ sawFull = {}
    /\ head < Cap

(***************************************************************************)
(*                    CLAIMS ABOUT REDIRECTS                               *)
(***************************************************************************)

IsRedirect(resp) == resp.by = "redirect"

\* The client follows the redirect: the same request for the Location.
Reissued(req, resp) == [req EXCEPT !.path = resp.location]

\* The requests followed: those of the snapshot model and two paths that are
\* not clean.
RedirectRequests ==
  SnapRequests
    \cup [method : {"GET", "POST"},
          path : {<<"/", "/", "a">>, <<"/", "a", "/", "/">>},
          host : {<< >>}]

\* Following the redirects of serve from req ends after at most two of them,
\* and the second does not lead back to the path of the request.
RedirectsEnd(serve(_), req) ==
  LET first == serve(req)
  IN  IF ~IsRedirect(first) THEN TRUE
      ELSE LET second == serve(Reissued(req, first))
           IN  IF ~IsRedirect(second) THEN TRUE
               ELSE /\ second.location # req.path
                    /\ ~IsRedirect(serve(Reissued(req, second)))

ServedByRouter(req) == RouterServeHTTP(router, req)
ServedByFrozen(req) == FrozenServeHTTP(frozen, req)

\* C33: for every route set, flag setting and request, re-issuing the request
\* to the Location of each redirect reaches a response that is not a redirect
\* after at most two redirects, and the router does not send /p to /p/ and
\* /p/ back to /p; for the Router and for the FrozenRouter.
C33_RedirectsTerminate ==
  \A req \in RedirectRequests :
    /\ RedirectsEnd(ServedByRouter, req)
    /\ frozen # NoFrozen => RedirectsEnd(ServedByFrozen, req)

\* The loop in the Router: under StrictSlash a request is redirected to the
\* other slash form and from there back.
C33_RouterLoop ==
  \E req \in RedirectRequests :
    LET first == ServedByRouter(req)
    IN  /\ IsRedirect(first)
        /\ IsRedirect(ServedByRouter(Reissued(req, first)))
        /\ ServedByRouter(Reissued(req, first)).location = req.path

(***************************************************************************)
(* Claims about ServeHTTP and Handle running concurrently.                 *)
(***************************************************************************)

\* ServeHTTP has returned without a panic and without its handler calling
\* Handle.
Answered ==
  /\ disp.pc = "idle"
  /\ disp.req # NoRequest
  /\ ~disp.panicked
  /\ ~disp.nested

\* The responses of the request against each state the router went through
\* while the call ran.
AnswersSeen == {RouterServeHTTP(r, disp.req) : r \in disp.seen}

\* The Allow header names the method.
AllowLists(allow, method) == \E i \in 1..Len(allow) : allow[i] = method

\* The method-not-allowed answer, written by the router or by the override.
AnswersMethodNotAllowed(resp) == resp.status = 405 \/ resp.by = "MethodNotAllowed"

\* C34: a ServeHTTP that ran while Handle registered routes answers as the
\* request is answered by the router before or after one of the
\* registrations, and a method-not-allowed answer does not list the method
\* of the request in Allow.
C34_BeforeOrAfter ==
  Answered =>
    /\ disp.resp \in AnswersSeen
    /\ AnswersMethodNotAllowed(disp.resp) => ~AllowLists(disp.resp.allow, disp.req.method)

\* A request answered with method-not-allowed and an Allow header that lists
\* its own method.
C34_AllowListsOwnMethod ==
  /\ Answered
  /\ AnswersMethodNotAllowed(disp.resp)
  /\ AllowLists(disp.resp.allow, disp.req.method)

\* Without a registration during the call the steps of ServeHTTP give the
\* answer of the router.
SequentialAnswer ==
  (Answered /\ Cardinality(disp.seen) = 1) => disp.resp \in AnswersSeen

\* C35: ServeHTTP reads the state of a route table only while it holds the
\* read lock of r.mu, handle writes it only while it holds the write lock,
\* and no read of ServeHTTP is made while handle is inside the write lock.
C35_ReadsUnderLock ==
  /\ ~chist.unlockedRead
  /\ ~chist.unlockedWrite
  /\ ~chist.coincided

\* table.hasTrailing was read by ServeHTTP without the lock while handle held
\* the write lock for its change of the table.
C35_ReadDuringWrite ==
  /\ chist.coincided
  /\ ~chist.unlockedWrite

\* handle itself keeps to the lock.
WritesUnderLock == ~chist.unlockedWrite

\* A call of ServeHTTP or of Handle is in progress.
Serving == disp.pc # "idle"
Registering(g) == hnd[g].pc # "idle"

\* The goroutine can take its next step: it is not waiting, or what it waits
\* for (the lock, the return of the Handle it called) is there.
ServeRunnable ==
  \/ disp.pc = "rlock" /\ CanRLock
  \/ disp.pc = "body"
       /\ disp.sec \in {"ignoreCase", "hosts", "serve", "slashAllow", "allowHere", "allowThere"}
  \/ disp.pc = "flag" /\ disp.sec \in {"slashFlag", "allowFlag"}
  \/ disp.pc = "handler" /\ ~Registering("d")
HandleRunnable(g) ==
  \/ hnd[g].pc \in {"icLock", "tblLock"} /\ CanAnnounce
  \/ hnd[g].pc \in {"icWait", "tblWait"} /\ CanAcquire(g)
  \/ hnd[g].pc = "mwRLock" /\ CanRLock
  \/ hnd[g].pc \in {"ic", "mw", "tbl"}

\* How far handle has come: its steps in the order of the code.
HandleRank(g) ==
  CASE hnd[g].pc = "icLock" -> 1 [] hnd[g].pc = "icWait" -> 2
    [] hnd[g].pc = "ic" -> 3 [] hnd[g].pc = "mwRLock" -> 4
    [] hnd[g].pc = "mw" -> 5 [] hnd[g].pc = "tblLock" -> 6
    [] hnd[g].pc = "tblWait" -> 7 [] hnd[g].pc = "tbl" -> 8
    [] OTHER -> 9

\* How far ServeHTTP has come: the sections in the order of the code for
\* each table, RLock before the body of a section; then the function it
\* calls, then PanicHandler, then the return.
SectionRank ==
  CASE disp.sec = "ignoreCase" -> 1
    [] disp.sec = "hosts" -> 2
    [] disp.sec = "serve" ->
         10 * disp.ti + (IF disp.alt THEN 4 ELSE 0)
                      + (IF disp.cur = disp.ctx.method THEN 0 ELSE 1)
    [] disp.sec = "slashFlag" -> 10 * disp.ti + 2
    [] disp.sec = "slashAllow" -> 10 * disp.ti + 3
    [] disp.sec = "allowHere" -> 10 * disp.ti + 6
    [] disp.sec = "allowFlag" -> 10 * disp.ti + 7
    [] disp.sec = "allowThere" -> 10 * disp.ti + 8
    [] OTHER -> 0
ServeRank ==
  CASE disp.pc = "rlock" -> 2 * SectionRank
    [] disp.pc \in {"body", "flag"} -> 2 * SectionRank + 1
    [] disp.pc = "handler" -> IF disp.kind = "PanicHandler" THEN 101 ELSE 100
    [] OTHER -> 102

\* ServeHTTP itself holds the read lock: a read lock of goroutine "d" that is
\* not the one of the Handle its handler called.
ServeHolds == mu.readers["d"] > (IF hnd["d"].pc = "mw" THEN 1 ELSE 0)

CallsStarted == chist.dispatches + chist.registrations
Progress == ServeRank + HandleRank("d") + HandleRank("w")

\* C36: ServeHTTP holds no lock of r.mu while the route handler, NotFound,
\* MethodNotAllowed or PanicHandler runs nor after it returned, and no
\* goroutine calls RLock or Lock while it holds r.mu; so while a ServeHTTP or
\* a Handle is in progress (the Handle called by a handler, the Handle of
\* another goroutine, before and after a panic of a handler) one of them can
\* take a step, and every step of a call brings the calls nearer to their
\* return: they complete and never deadlock.
C36_NoDeadlock ==
  /\ [](disp.pc \in {"handler", "idle"} => ~ServeHolds)
  /\ [](~chist.calledHolding /\ ~chist.reentered)
  /\ []((Serving \/ \E g \in Goroutines : Registering(g))
          => (ServeRunnable \/ \E g \in Goroutines : HandleRunnable(g)))
  /\ [][CallsStarted' = CallsStarted => Progress' > Progress]_vars

\* A handler called Handle, which registered its route, and then panicked,
\* while the other goroutine registered a route too; all calls have returned.
C36_Witness ==
  /\ ~Serving
  /\ disp.nested /\ disp.panicked
  /\ \A g \in Goroutines : ~Registering(g) /\ hnd[g].reg # IdleHandle.reg /\ hnd[g].err = ""
  /\ Cardinality(routes) = 2

\* The objects of the pool that the calls of the trace up to event n have
\* taken and not put back.
Outstanding(trace, pool, n) ==
  Cardinality({i \in 1..n : trace[i] = PoolGet(pool)})
    - Cardinality({i \in 1..n : trace[i] = PoolPut(pool)})

\* An object is put back or used only while it is out of its pool, and is
\* taken only when the call holds none of that pool.
WellUsed(trace) ==
  \A i \in 1..Len(trace) :
    IF trace[i].op = "Get" THEN Outstanding(trace, trace[i].pool, i - 1) = 0
    ELSE Outstanding(trace, trace[i].pool, i - 1) = 1

\* Everything taken has been put back.
AllReturned(trace) ==
  \A pool \in PoolNames : Outstanding(trace, pool, Len(trace)) = 0

\* C39: a ServeHTTP or Handle that returned without a panic has put back
\* once everything it took from partsPool, paramPool and rwPool, nothing is
\* used or put back after it was put back, and after a panic of the handler
\* the objects that serveMethodInTable was to put back after the handler are
\* still out of their pools.
C39_PoolsBalanced ==
  /\ WellUsed(disp.trace)
  /\ \A g \in Goroutines : WellUsed(hnd[g].trace)
  /\ (disp.pc = "idle" /\ ~disp.panicked) => AllReturned(disp.trace)
  /\ \A g \in Goroutines : hnd[g].pc = "idle" => AllReturned(hnd[g].trace)
  /\ disp.panicked =>
       \A i \in 1..Len(disp.after) :
         disp.after[i].op = "Put"
           => Outstanding(disp.trace, disp.after[i].pool, Len(disp.trace)) = 1

\* ServeHTTP returned after a handler with parameters returned, having taken
\* and put back one object of each pool, and a Handle that failed after
\* getParts has returned too.
C39_Witness ==
  /\ disp.pc = "idle" /\ ~disp.panicked
  /\ \A pool \in PoolNames : \E i \in 1..Len(disp.trace) : disp.trace[i] = PoolPut(pool)
  /\ \E g \in Goroutines :
       /\ hnd[g].pc = "idle" /\ hnd[g].err # ""
       /\ \E i \in 1..Len(hnd[g].trace) : hnd[g].trace[i] = PoolPut("parts")

\* The handler of a parameter route panicked: segs, params and prw stay out.
PanickedHolding ==
  /\ disp.pc = "idle" /\ disp.panicked
  /\ \A pool \in PoolNames : Outstanding(disp.trace, pool, Len(disp.trace)) = 1

\* getParts rejected the path of the request and put segs back itself.
RejectedPath ==
  /\ disp.pc = "idle"
  /\ Len(disp.trace) >= 3
  /\ SubSeq(disp.trace, 1, 3) = <<PoolGet("parts"), PoolUse("parts"), PoolPut("parts")>>
(***************************************************************************)
(* The shape of the trie after successful and failed registrations.       *)
(***************************************************************************)

\* The children of a trie node.
Children(n) ==
  {n.staticChildren[p] : p \in DOMAIN n.staticChildren}
    \cup (IF n.paramChild # NilNode THEN {n.paramChild} ELSE {})
    \cup (IF n.wildChild # NilNode THEN {n.wildChild} ELSE {})

\* The nodes of the trie under n, each with the parts on the way from the
\* root to it.
RECURSIVE Walk(_, _)
Walk(n, path) ==
  {[node |-> n, path |-> path]}
    \cup UNION {Walk(c, Append(path, c.part)) : c \in Children(n)}

\* The roots of every table of the router.
TrieRoots(r) ==
  {r.table.roots[m] : m \in DOMAIN r.table.roots}
    \cup UNION {{r.hosts[h].roots[m] : m \in DOMAIN r.hosts[h].roots} :
                  h \in DOMAIN r.hosts}

\* No parameter or wildcard name stands twice among the parts.
NoRepeat(parts) ==
  \A i \in 1..Len(parts), j \in 1..Len(parts) :
    i < j /\ IsParamPart(parts[i]) /\ IsParamPart(parts[j])
      => Tail(parts[i]) # Tail(parts[j])

\* The node is well formed: its children stand in the fields of their kind,
\* it has not both a parameter and a wildcard child, a wildcard node has no
\* children, and it has a handler exactly when it has a pattern.
NodeShape(n) ==
  /\ n.paramChild # NilNode => Len(n.paramChild.part) > 1 /\ n.paramChild.part[1] = ":"
  /\ n.wildChild # NilNode => Len(n.wildChild.part) > 1 /\ n.wildChild.part[1] = "*"
  /\ \A p \in DOMAIN n.staticChildren :
       n.staticChildren[p].part = p /\ ~IsParamPart(p)
  /\ ~(n.paramChild # NilNode /\ n.wildChild # NilNode)
  /\ IsWildNode(n) => Children(n) = {}
  /\ (n.handler # NoHandler) <=> (n.pattern # << >>)

\* The patterns stored under the root, each split into its parts.
PatternsUnder(root) ==
  {getParts(e.node.pattern).parts :
     e \in {f \in Walk(root, << >>) : f.node.pattern # << >>}}

\* Two patterns that share the parts before a level and both have a
\* parameter or a wildcard at that level have the same one there.
SameNames(P) ==
  \A p \in P, q \in P :
    \A k \in 1..Len(p) :
      (k <= Len(q) /\ SubSeq(p, 1, k - 1) = SubSeq(q, 1, k - 1)
         /\ IsParamPart(p[k]) /\ IsParamPart(q[k])) => p[k] = q[k]

\* C37: after any sequence of successful and failed registrations every trie
\* node has at most one parameter child and at most one wildcard child and
\* never both, a wildcard node has no children, a node has a handler exactly
\* when it has a pattern, the patterns that share a prefix use the same
\* parameter name at each level, and no parameter name repeats on a path
\* from the root.
C37_TrieShape ==
  \A root \in TrieRoots(router) :
    /\ \A e \in Walk(root, << >>) : NodeShape(e.node) /\ NoRepeat(e.path)
    /\ SameNames(PatternsUnder(root))
    /\ \A p \in PatternsUnder(root) : NoRepeat(p)

\* A registration has just failed on a trie that holds a route with two
\* parameters and a static route next to a parameter child.
C37_Witness ==
  /\ op = "Handle"
  /\ lastErr # ""
  /\ \E root \in TrieRoots(router) :
       /\ root.paramChild # NilNode
       /\ root.staticChildren # << >>
       /\ \E p \in PatternsUnder(root) :
            Cardinality({k \in 1..Len(p) : IsParamPart(p[k])}) = 2

(***************************************************************************)
(* The parameter collector after a lookup.                                 *)
(***************************************************************************)

\* The 0-based offset in the path at which its k-th segment starts.
RECURSIVE StartOf(_, _)
StartOf(segments, k) ==
  IF k = 1 THEN 1 ELSE StartOf(segments, k - 1) + Len(segments[k - 1]) + 1

\* The parameters of the pattern in the order of the path, each with the
\* segment of the path at its level, a wildcard with the rest of the path
\* from its level on.
ParamsOf(patternParts, path) ==
  LET segments == getParts(path).parts
      levels == Ascending({k \in 1..Len(patternParts) : IsParamPart(patternParts[k])},
                          1, Len(patternParts))
  IN  [i \in 1..Len(levels) |->
         LET k == levels[i]
         IN  <<Tail(patternParts[k]),
               IF patternParts[k][1] = ":" THEN segments[k]
               ELSE SubSeq(path, StartOf(segments, k) + 1, Len(path))>>]

\* What the lookup of the path under the root leaves in an empty collector,
\* in the router and in the router frozen from it.
Collected(root, path) == search(root, getParts(path), 0, << >>, TRUE)
FrozenCollected(root, path) == frozenSearch(root, getParts(path), 0, << >>, TRUE)

\* C38: after a successful lookup with a parameter collector the collector
\* holds exactly the parameters of the matched pattern, in path order, each
\* with the segment of the original path at its level (a wildcard with the
\* rest of the path); captures of branches that were tried and abandoned are
\* not in it.  The same holds for the lookup in the frozen router.
C38_CollectorExact ==
  \A m \in DOMAIN router.table.roots, path \in TriePaths :
    /\ LET r == Collected(router.table.roots[m], path)
       IN  r.node # NilNode
             => r.params = ParamsOf(getParts(r.node.pattern).parts, path)
    /\ LET r == FrozenCollected(Freeze(router).table.roots[m], path)
       IN  r.node # NilNode
             => r.params = ParamsOf(getParts(r.node.pattern).parts, path)

\* The lookup of /s/a/y has captured i under /s, found no child for y, and
\* matched the wildcard under the root; the lookup of /a/a has left the
\* static branch /a for the parameter branch.
C38_Witness ==
  /\ op = "ServeHTTP"
  /\ "GET" \in DOMAIN router.table.roots
  /\ LET root == router.table.roots["GET"]
         r == Collected(root, <<"/", "s", "/", "a", "/", "y">>)
         q == Collected(root, <<"/", "s", "/", "a", "/", "x">>)
     IN  /\ r.node # NilNode /\ r.params = << <<<<"w">>, <<"s", "/", "a", "/", "y">>>> >>
         /\ q.node # NilNode /\ q.params = << <<<<"i">>, <<"a">>>> >>

(***************************************************************************)
(* The order of the registrations.                                         *)
(***************************************************************************)

\* The sequences that hold every element of S once.
RECURSIVE Perms(_)
Perms(S) ==
  IF S = {} THEN {<< >>}
  ELSE UNION {{<<x>> \o p : p \in Perms(S \ {x})} : x \in S}

\* Router.Handle called for the routes of the sequence, one after the other,
\* up to the first that fails.
RECURSIVE HandleAll(_, _)
HandleAll(r, todo) ==
  IF todo = << >> THEN [err |-> "", router |-> r]
  ELSE LET reg == Reg(todo[1].host, todo[1].method, todo[1].pattern)
           res == handle(r, reg.host, reg.method, reg.pattern, HandlerOf(reg),
                         reg.groupMws)
       IN  IF res.err # "" THEN res ELSE HandleAll(res.router, Tail(todo))

\* The router as NewRouter and the application's settings left it.
Unregistered(r) == NewRouter(r.IgnoreCase, r.StrictSlash, r.MethodNotAllowed)

\* Both routers, and the routers frozen from them, answer every request
\* alike: status, handler, parameters, Allow and Location.
SameAnswers(r1, r2) ==
  \A req \in TrieRequests :
    /\ RouterServeHTTP(r1, req) = RouterServeHTTP(r2, req)
    /\ FrozenServeHTTP(Freeze(r1), req) = FrozenServeHTTP(Freeze(r2), req)

\* C40: registration is order-independent: the routes that were registered
\* without error in the order of this behaviour register without error in
\* every order, and the router that results (and the one frozen from it)
\* answers every request as this one does.
C40_OrderIndependent ==
  \A order \in Perms(routes) :
    LET res == HandleAll(Unregistered(router), order)
    IN  res.err = "" /\ SameAnswers(res.router, router)

\* Three routes are registered, two of them static routes for one path under
\* two methods and one a parameter route, and requests match them.
C40_Witness ==
  /\ op = "Handle" /\ lastErr = ""
  /\ Cardinality(routes) = 3
  /\ \E a \in routes, b \in routes, c \in routes :
       /\ a.pattern = b.pattern /\ a.method # b.method
       /\ \E k \in 1..Len(c.pattern) : c.pattern[k] = ":"
  /\ \E req \in TrieRequests : RouterServeHTTP(router, req).status = 405
  /\ \E req \in TrieRequests : RouterServeHTTP(router, req).params # << >>
====
